---- MODULE Spec2Model ----
(***************************************************************************)
(* Model of the guidelinely client: the two calculation operations         *)
(* (calculate_guidelines, calculate_batch) of guidelinely/client.py and    *)
(* the disk cache they share (guidelinely/cache.py).                       *)
(*                                                                         *)
(* Python values are tagged records, one field name per Python type, so    *)
(* that values of different types can be compared:                         *)
(*   None -> [none |-> TRUE]      str  -> [str |-> "..."]                  *)
(*   int  -> [int |-> n]          list -> [list |-> <<v1, ..., vn>>]        *)
(*   dict -> [dict |-> << <<k1, v1>>, ..., <<kn, vn>> >>]                   *)
(* A dict keeps its items in insertion order, as a Python dict does.       *)
(***************************************************************************)
EXTENDS Integers, Sequences, FiniteSets, TLC

(***************************************************************************)
(* Bounds of the model.                                                    *)
(***************************************************************************)
MaxCalls == 2
MaxTicks == 2
MaxBoots == 2

(***************************************************************************)
(* Program constants.                                                      *)
(***************************************************************************)
MaxBatch == 50

\* DefaultTtl of seven days
DefaultTtlWeek == 7 * 24 * 3600

DefaultTtl == 86400
TickStep == 50000

(***************************************************************************)
(* Python values.                                                          *)
(***************************************************************************)
None == [none |-> TRUE]
Str(s) == [str |-> s]
Num(n) == [int |-> n]
List(s) == [list |-> s]
Dict(s) == [dict |-> s]

IsNone(v) == "none" \in DOMAIN v
IsStr(v) == "str" \in DOMAIN v
IsInt(v) == "int" \in DOMAIN v
IsList(v) == "list" \in DOMAIN v
IsDict(v) == "dict" \in DOMAIN v

\* bool(v): the truth value Python gives v in `if v:`
Truthy(v) ==
  IF IsNone(v) THEN FALSE
  ELSE IF IsStr(v) THEN v.str # ""
  ELSE IF IsInt(v) THEN v.int # 0
  ELSE IF IsList(v) THEN v.list # <<>>
  ELSE v.dict # <<>>

\* len(v) of a list
PyLen(v) == Len(v.list)

\* k in d, for a dict d and a str key k
HasKey(d, k) == \E i \in 1..Len(d.dict) : d.dict[i][1] = Str(k)

\* d[k], for a dict d that has the str key k
GetItem(d, k) == d.dict[CHOOSE i \in 1..Len(d.dict) : d.dict[i][1] = Str(k)][2]

\* d.get(k): d[k], or None when k is not in d
DictGet(d, k) == IF HasKey(d, k) THEN GetItem(d, k) ELSE None

\* the concatenation of a sequence of sequences
RECURSIVE Cat(_)
Cat(ss) == IF ss = <<>> THEN <<>> ELSE Head(ss) \o Cat(Tail(ss))

\* the elements of s in an order that depends on the elements alone
Canonical(s) ==
  IF Len(s) > 3 THEN s
  ELSE CHOOSE t \in {[i \in 1..Len(s) |-> s[f[i]]] : f \in Permutations(1..Len(s))} : TRUE

\* Pickle with the bug of writing a list in a canonical (sorted) order
RECURSIVE PickleSortingLists(_)
PickleSortingLists(v) ==
  IF IsNone(v) THEN <<"NONE">>
  ELSE IF IsStr(v) THEN <<"UNICODE", v.str>>
  ELSE IF IsInt(v) THEN <<"BININT", ToString(v.int)>>
  ELSE IF IsList(v)
    THEN <<"EMPTY_LIST", "MARK">>
           \o Cat([i \in 1..Len(v.list) |-> PickleSortingLists(Canonical(v.list)[i])])
           \o <<"APPENDS">>
  ELSE <<"EMPTY_DICT", "MARK">>
         \o Cat([i \in 1..Len(v.dict) |->
                   PickleSortingLists(v.dict[i][1]) \o PickleSortingLists(v.dict[i][2])])
         \o <<"SETITEMS">>

(***************************************************************************)
(* The cache key as diskcache stores it.  cache.get and cache.set hand a   *)
(* key that is not a str, bytes, int or float to pickle.dumps and compare  *)
(* the resulting bytes.  Pickle writes a dict item by item in iteration    *)
(* (insertion) order and a list element by element, so the bytes are a     *)
(* token sequence that follows the structure of the key.  (Pickle's memo   *)
(* of objects met twice is left out: equal keys are taken to be built the  *)
(* same way.)  A value that is not a str, bytes, int or float is stored    *)
(* the same way, as the bytes pickle.dumps gives, and read back with       *)
(* pickle.load.                                                            *)
(***************************************************************************)
RECURSIVE Pickle(_)
Pickle(v) ==
  IF IsNone(v) THEN <<"NONE">>
  ELSE IF IsStr(v) THEN <<"UNICODE", v.str>>
  ELSE IF IsInt(v) THEN <<"BININT", ToString(v.int)>>
  ELSE IF IsList(v)
    THEN <<"EMPTY_LIST", "MARK">>
           \o Cat([i \in 1..Len(v.list) |-> Pickle(v.list[i])])
           \o <<"APPENDS">>
  ELSE <<"EMPTY_DICT", "MARK">>
         \o Cat([i \in 1..Len(v.dict) |->
                   Pickle(v.dict[i][1]) \o Pickle(v.dict[i][2])])
         \o <<"SETITEMS">>

\* the largest int a stored value holds
MaxInt == 100

\* d.update(pairs), one d[k] = v at a time: a key d has keeps its place
RECURSIVE SetItems(_, _)
SetItems(d, pairs) ==
  IF pairs = <<>> THEN d
  ELSE LET k == pairs[1][1]
           v == pairs[1][2]
           next == IF \E i \in DOMAIN d : d[i][1] = k
                     THEN [i \in DOMAIN d |-> IF d[i][1] = k THEN <<k, v>> ELSE d[i]]
                     ELSE Append(d, <<k, v>>)
       IN SetItems(next, Tail(pairs))

\* the objects s holds, two by two, as key and value pairs
Pairs(s) == [j \in 1..(Len(s) \div 2) |-> <<s[2 * j - 1], s[2 * j]>>]

RECURSIVE Parse(_, _)

\* ParseItems that collects the objects in reverse order
RECURSIVE ParseItemsReversed(_, _, _, _)
ParseItemsReversed(toks, i, acc, stop) ==
  IF toks[i] = stop THEN [vals |-> acc, next |-> i + 1]
  ELSE LET r == Parse(toks, i)
       IN ParseItemsReversed(toks, r.next, <<r.val>> \o acc, stop)

\* the objects built between a MARK and the opcode stop that consumes them
RECURSIVE ParseItems(_, _, _, _)
ParseItems(toks, i, acc, stop) ==
  IF toks[i] = stop THEN [vals |-> acc, next |-> i + 1]
  ELSE LET r == Parse(toks, i)
       IN ParseItems(toks, r.next, Append(acc, r.val), stop)

\* the object the opcodes from toks[i] on build, and the position after them
Parse(toks, i) ==
  LET op == toks[i]
  IN IF op = "NONE" THEN [val |-> None, next |-> i + 1]
     ELSE IF op = "UNICODE" THEN [val |-> Str(toks[i + 1]), next |-> i + 2]
     ELSE IF op = "BININT"
       THEN [val |-> Num(CHOOSE x \in 0..MaxInt : ToString(x) = toks[i + 1]),
             next |-> i + 2]
     ELSE IF op = "EMPTY_LIST"
       THEN LET r == ParseItems(toks, i + 2, <<>>, "APPENDS")
            IN [val |-> List(r.vals), next |-> r.next]
     ELSE LET r == ParseItems(toks, i + 2, <<>>, "SETITEMS")
          IN [val |-> Dict(SetItems(<<>>, Pairs(r.vals))), next |-> r.next]

\* pickle.load: the value the stored bytes hold
Loads(toks) == Parse(toks, 1).val

\* CalculateKey without the item target_unit
CalculateKeyWithoutUnit(parameter, media, context, target_unit) ==
  Dict(<< <<Str("endpoint"), Str("calculate")>>,
          <<Str("parameter"), parameter>>,
          <<Str("media"), media>>,
          <<Str("context"), context>> >>)

\* cache_key of calculate_guidelines
CalculateKey(parameter, media, context, target_unit) ==
  Dict(<< <<Str("endpoint"), Str("calculate")>>,
          <<Str("parameter"), parameter>>,
          <<Str("media"), media>>,
          <<Str("context"), context>>,
          <<Str("target_unit"), target_unit>> >>)

\* BatchKey without the context
BatchKeyWithoutContext(parameters, media, context) ==
  Dict(<< <<Str("endpoint"), Str("calculate/batch")>>,
          <<Str("parameters"), parameters>>,
          <<Str("media"), media>> >>)

\* cache_key of calculate_batch
BatchKey(parameters, media, context) ==
  Dict(<< <<Str("endpoint"), Str("calculate/batch")>>,
          <<Str("parameters"), parameters>>,
          <<Str("media"), media>>,
          <<Str("context"), context>> >>)

(***************************************************************************)
(* The cache store: a function from the stored key bytes to the entry.     *)
(* An entry holds the stored bytes of the value (blob) and its             *)
(* expire_time; the fields key and value are the Python key and value the  *)
(* entry was set with (kept to state the claims, never read by an          *)
(* operation).                                                             *)
(***************************************************************************)
EmptyStore == [k \in {} |-> None]

\* CacheGet with the bug of returning a row whatever its expire_time
CacheGetNoExpiry(st, key, t) ==
  LET k == Pickle(key)
  IN IF k \in DOMAIN st THEN Loads(st[k].blob) ELSE None

\* cache.get(key): the value of a row whose expire_time is later than now
CacheGet(st, key, t) ==
  LET k == Pickle(key)
  IN IF k \in DOMAIN st /\ st[k].expire > t THEN Loads(st[k].blob) ELSE None

\* get_cached with the None test inverted
get_cached_inverted(st, key_data, t) ==
  LET result == CacheGet(st, key_data, t)
  IN IF ~IsNone(result) THEN None ELSE result

\* get_cached(key_data)
get_cached(st, key_data, t) ==
  LET result == CacheGet(st, key_data, t)
  IN IF IsNone(result) THEN None ELSE result

\* CacheSet with the bug of keeping the expire_time of a row that exists
CacheSetKeepExpiry(st, key, value, ttl, t) ==
  LET k == Pickle(key)
  IN [x \in DOMAIN st \cup {k} |->
        IF x = k
          THEN [value |-> value, blob |-> Pickle(value),
                expire |-> IF k \in DOMAIN st THEN st[k].expire ELSE t + ttl,
                key |-> key]
          ELSE st[x]]

\* cache.set(key, value, expire=ttl): insert or replace the row of the key
CacheSet(st, key, value, ttl, t) ==
  LET k == Pickle(key)
  IN [x \in DOMAIN st \cup {k} |->
        IF x = k
          THEN [value |-> value, blob |-> Pickle(value), expire |-> t + ttl, key |-> key]
        ELSE st[x]]

\* set_cached that keeps a live entry (cache.add in place of cache.set)
set_cached_if_absent(st, key_data, value, ttl, t) ==
  IF ~IsNone(CacheGet(st, key_data, t)) THEN st
  ELSE CacheSet(st, key_data, value, ttl, t)

\* set_cached(key_data, value, ttl): callers that pass no ttl get DefaultTtl
set_cached(st, key_data, value, ttl, t) == CacheSet(st, key_data, value, ttl, t)

(***************************************************************************)
(* The remote service's answers.  A response either times out or carries a *)
(* status code and a body; parses says whether response.json() can decode  *)
(* the body.                                                               *)
(***************************************************************************)
Response(timeout, status, parses, json) ==
  [timeout |-> timeout, status |-> status, parses |-> parses, json |-> json]

\* a or b, as Python evaluates it
PyOr(a, b) == IF Truthy(a) THEN a ELSE b

\* ErrorMessage that looks at detail alone
ErrorMessageDetailOnly(response) ==
  IF response.parses /\ IsDict(response.json)
    THEN PyOr(DictGet(response.json, "detail"), Str("API request failed"))
    ELSE Str("API request failed")

\* the message _handle_error gives the GuidelinelyAPIError it raises
ErrorMessage(response) ==
  IF response.parses /\ IsDict(response.json)
    THEN PyOr(DictGet(response.json, "detail"),
              PyOr(DictGet(response.json, "message"), Str("API request failed")))
    ELSE Str("API request failed")

\* _handle_error with the bug of reporting every failure as status 500
_handle_error_500(response) ==
  [err |-> "GuidelinelyAPIError", status_code |-> 500,
   message |-> ErrorMessage(response)]

\* _handle_error(response): the GuidelinelyAPIError it raises
_handle_error(response) ==
  [err |-> "GuidelinelyAPIError", status_code |-> response.status,
   message |-> ErrorMessage(response)]

\* no exception
NoError == [err |-> "", status_code |-> 0, message |-> Str("")]

\* Raised with the bug of catching the timeout together with the failure statuses
RaisedTimeoutAsApiError(response) ==
  IF response.timeout \/ response.status # 200
    THEN [err |-> "GuidelinelyAPIError", status_code |-> response.status,
          message |-> Str("API request failed")]
  ELSE IF ~response.parses
    THEN [err |-> "JSONDecodeError", status_code |-> 0, message |-> Str("")]
  ELSE NoError

\* The exception a response makes the calculation call raise before it
\* touches the cache: httpx.TimeoutException is turned into
\* GuidelinelyTimeoutError, a status other than 200 goes to _handle_error, and
\* response.json() raises on a body that is not JSON.
Raised(response) ==
  IF response.timeout
    THEN [err |-> "GuidelinelyTimeoutError", status_code |-> 0,
          message |-> Str("Request timed out")]
  ELSE IF response.status # 200 THEN _handle_error(response)
  ELSE IF ~response.parses
    THEN [err |-> "JSONDecodeError", status_code |-> 0, message |-> Str("")]
  ELSE NoError

\* the fields of GuidelineResponse the model keeps (pydantic ignores the others)
GuidelineFields == {Str("parameter"), Str("value")}

\* d restricted to the items whose key is in keys, in d's order
RECURSIVE SelectItems(_, _)
SelectItems(items, keys) ==
  IF items = <<>> THEN <<>>
  ELSE IF Head(items)[1] \in keys
    THEN <<Head(items)>> \o SelectItems(Tail(items), keys)
    ELSE SelectItems(Tail(items), keys)

\* GuidelineResponse(**r) accepts r
IsGuideline(r) ==
  IsDict(r) /\ \A f \in GuidelineFields : \E i \in 1..Len(r.dict) : r.dict[i][1] = f

\* CalculationResponse(**data) accepts data
IsCalculationResponse(data) ==
  /\ IsDict(data)
  /\ HasKey(data, "results") /\ HasKey(data, "context") /\ HasKey(data, "total_count")
  /\ IsList(GetItem(data, "results"))
  /\ \A i \in 1..Len(GetItem(data, "results").list) :
        IsGuideline(GetItem(data, "results").list[i])
  /\ IsDict(GetItem(data, "context"))
  /\ IsInt(GetItem(data, "total_count"))

\* CalculationResponse(**data): the object built, or the exception raised
CalculationResponse(data) ==
  IF ~IsDict(data) THEN [ok |-> FALSE, err |-> "TypeError", obj |-> None]
  ELSE IF ~IsCalculationResponse(data)
    THEN [ok |-> FALSE, err |-> "ValidationError", obj |-> None]
  ELSE [ok |-> TRUE, err |-> "",
        obj |-> Dict(<< <<Str("results"),
                          List([i \in 1..Len(GetItem(data, "results").list) |->
                                 Dict(SelectItems(GetItem(data, "results").list[i].dict,
                                                  GuidelineFields))])>>,
                        <<Str("context"), GetItem(data, "context")>>,
                        <<Str("total_count"), GetItem(data, "total_count")>> >>)]

(***************************************************************************)
(* The calls the model issues.  A request is the operation and its         *)
(* arguments: parameter is a str for calculate_guidelines and the list     *)
(* parameters for calculate_batch (target_unit is None there).  api_key is  *)
(* left at its default, None, unless WithApiKey sets it.                   *)
(***************************************************************************)
Request(op, parameter, media, context, target_unit) ==
  [op |-> op, parameter |-> parameter, media |-> media,
   context |-> context, target_unit |-> target_unit, api_key |-> None]

NoRequest == Request("none", None, None, None, None)

\* the same call made with the argument api_key
WithApiKey(req, api_key) == [req EXCEPT !.api_key = api_key]

\* the values of the argument api_key
ApiKeys == {None, Str("key-A"), Str("key-B")}

Al == Str("Aluminum")
Cu == Str("Copper")
Water == Str("surface_water")
CtxAB == Dict(<< <<Str("pH"), Str("7.0 1")>>, <<Str("hardness"), Str("100 mg/L")>> >>)
CtxBA == Dict(<< <<Str("hardness"), Str("100 mg/L")>>, <<Str("pH"), Str("7.0 1")>> >>)
Ctx7 == Dict(<< <<Str("pH"), Str("7.0 1")>> >>)
Ctx8 == Dict(<< <<Str("pH"), Str("8.0 1")>> >>)

\* the parameter Aluminum written as a dict, with no unit conversion
AlNoUnit == Dict(<< <<Str("name"), Al>>, <<Str("target_unit"), None>> >>)

\* a list of n copies of one parameter name
Repeat(n, v) == List([i \in 1..n |-> v])

CalculateInputs ==
  { Request("calculate", Al, Water, CtxAB, None),
    Request("calculate", Al, Water, CtxBA, None),
    Request("calculate", Al, Str(""), CtxAB, None),
    Request("calculate", Al, Water, List(<<Ctx7, Ctx8>>), None),
    Request("calculate", Al, Water, List(<<Ctx8, Ctx7>>), None),
    Request("calculate", Al, Water, List(<<CtxAB>>), None) }

BatchInputs ==
  { Request("batch", List(<<Al, Cu>>), Water, CtxAB, None),
    Request("batch", List(<<Cu, Al>>), Water, CtxAB, None),
    Request("batch", List(<<AlNoUnit, Cu>>), Water, CtxAB, None),
    Request("batch", List(<<>>), Water, CtxAB, None),
    Request("batch", Repeat(MaxBatch, Al), Water, CtxAB, None),
    Request("batch", Repeat(MaxBatch + 1, Al), Water, CtxAB, None) }

\* calls that differ from the first in one argument each
DistinctCalculateInputs ==
  { Request("calculate", Al, Water, Ctx7, None),
    Request("calculate", Cu, Water, Ctx7, None),
    Request("calculate", Al, Str("soil"), Ctx7, None),
    Request("calculate", Al, Water, Ctx8, None),
    Request("calculate", Al, Water, Ctx7, Str("mg/L")) }

DistinctBatchInputs ==
  { Request("batch", List(<<Al>>), Water, Ctx7, None),
    Request("batch", List(<<Cu>>), Water, Ctx7, None) }

\* the calls issued where the store and the service may also fail
CoreCalculateInputs ==
  { Request("calculate", Al, Water, CtxAB, None) }

CoreBatchInputs ==
  { Request("batch", List(<<Al, Cu>>), Water, CtxAB, None),
    Request("batch", Repeat(MaxBatch + 1, Al), Water, CtxAB, None) }

\* the JSON body calculate_guidelines posts
CalculateBody(req) ==
  Dict(<< <<Str("parameter"), req.parameter>>, <<Str("media"), req.media>> >>
       \o (IF Truthy(req.context) THEN << <<Str("context"), req.context>> >> ELSE <<>>)
       \o (IF Truthy(req.target_unit)
             THEN << <<Str("target_unit"), req.target_unit>> >> ELSE <<>>))

\* the JSON body calculate_batch posts
BatchBody(req) ==
  Dict(<< <<Str("parameters"), req.parameter>>, <<Str("media"), req.media>> >>
       \o (IF Truthy(req.context) THEN << <<Str("context"), req.context>> >> ELSE <<>>))

\* GUIDELINELY_API_KEY, which is not set
ApiKeyEnv == None

\* get_api_key(api_key): the argument, or the environment variable when the
\* argument is None
get_api_key(api_key) == IF IsNone(api_key) THEN ApiKeyEnv ELSE api_key

\* the headers of the posted request
Headers(req) ==
  LET key == get_api_key(req.api_key)
  IN Dict(<< <<Str("User-Agent"), Str("guidelinely-python")>> >>
          \o (IF Truthy(key) THEN << <<Str("X-API-KEY"), key>> >> ELSE <<>>))

\* cache_key with the resolved API key among its items
cache_key_with_api_key(req) ==
  LET k == IF req.op = "calculate"
             THEN CalculateKey(req.parameter, req.media, req.context, req.target_unit)
             ELSE BatchKey(req.parameter, req.media, req.context)
  IN Dict(k.dict \o << <<Str("api_key"), get_api_key(req.api_key)>> >>)

\* the cache_key a call builds from its arguments: api_key is not among them
cache_key(req) ==
  IF req.op = "calculate"
    THEN CalculateKey(req.parameter, req.media, req.context, req.target_unit)
    ELSE BatchKey(req.parameter, req.media, req.context)

\* the name of an element of parameters: a str, or a dict with the key name
NameOf(e) == IF IsDict(e) THEN GetItem(e, "name") ELSE e

\* the parameter names a request asks for, in order
NamesOf(req) ==
  IF req.op = "calculate" THEN <<req.parameter>>
  ELSE [i \in 1..Len(req.parameter.list) |-> NameOf(req.parameter.list[i])]

(***************************************************************************)
(* A payload the service answers a request with: one record per context    *)
(* and parameter, tagged with context_index when a list of contexts was    *)
(* sent, the echoed context (contexts for a list) and total_count.  ver    *)
(* tells the answers of different invocations apart.                       *)
(***************************************************************************)
Payload(req, ver) ==
  LET names == NamesOf(req)
      m == Len(names)
      many == IsList(req.context)
      n == IF many THEN Len(req.context.list) ELSE 1
      rec(j, i) ==
        Dict(<< <<Str("parameter"), names[i]>>, <<Str("value"), Num(ver)>> >>
             \o (IF many THEN << <<Str("context_index"), Num(j - 1)>> >> ELSE <<>>))
      results == [x \in 1..(n * m) |-> rec(((x - 1) \div m) + 1, ((x - 1) % m) + 1)]
  IN Dict(<< <<Str("results"), List(results)>>,
             <<Str("context"), IF IsDict(req.context) THEN req.context ELSE Dict(<<>>)>> >>
          \o (IF many THEN << <<Str("contexts"), req.context>> >> ELSE <<>>)
          \o << <<Str("total_count"), Num(n * m)>> >>)

Timeout == Response(TRUE, 0, FALSE, None)

NoResponse == Response(FALSE, 0, FALSE, None)

\* what the service may answer to a request
Responses(req) ==
  { Timeout,
    Response(FALSE, 500, TRUE, Dict(<< <<Str("detail"), Str("Internal error")>> >>)),
    Response(FALSE, 404, FALSE, None),
    Response(FALSE, 200, TRUE, Payload(req, 1)),
    Response(FALSE, 200, TRUE, Payload(req, 2)),
    Response(FALSE, 200, TRUE, Dict(<<>>)),
    Response(FALSE, 200, TRUE, Dict(<< <<Str("status"), Str("accepted")>> >>)) }

(***************************************************************************)
(* The cache directory.  GUIDELINELY_CACHE_DIR is None when it is not set  *)
(* and a str when it is.                                                   *)
(***************************************************************************)
\* Path.home()
HomeDir == "/home/user"

\* Path(s) of a path written without redundant separators: the empty path
\* is the current directory
Path(s) == IF s = "" THEN "." ELSE s

\* os.getenv(name, default), for the value setting of the variable
Getenv(setting, default) == IF IsNone(setting) THEN default ELSE setting.str

\* CACHE_DIR without the environment variable
CACHE_DIR_home_only(setting) == Path(Path(HomeDir) \o "/" \o ".guidelinely_cache")

\* CACHE_DIR = Path(os.getenv("GUIDELINELY_CACHE_DIR", str(_default_cache_dir)))
CACHE_DIR(setting) ==
  LET _default_cache_dir == Path(HomeDir) \o "/" \o ".guidelinely_cache"
  IN Path(Getenv(setting, _default_cache_dir))

\* the values of GUIDELINELY_CACHE_DIR
CacheDirSettings == {None, Str("/tmp/custom_guidelinely_cache"), Str("")}

\* the directories a cache may live in
Directories == {CACHE_DIR(setting) : setting \in CacheDirSettings}

(***************************************************************************)
(* State.                                                                  *)
(*   store   the rows of the disk cache                                    *)
(*   now     the clock, in seconds                                         *)
(*   pc      where each caller is in its call: idle, remote (the request   *)
(*           is posted, no response yet), write (the response is decoded,  *)
(*           set_cached is next)                                           *)
(*   cur     the call in progress of each caller                           *)
(*   hist    the last two completed calls, oldest first                    *)
(*   nCalls  the number of calls issued so far                             *)
(*   twin    the store of the twin run: the same calls at the same times,  *)
(*           answered with the same responses, each made with another      *)
(*           api_key                                                       *)
(*   sets    the rows the calls to set_cached asked the store to write     *)
(*   ops     the last two direct uses of the cache (set_cached, get_cached, *)
(*           cache.clear) and metadata operations, oldest first             *)
(*   boot    the number of times the process was restarted                 *)
(*   env     GUIDELINELY_CACHE_DIR in the environment of the process       *)
(*   dir     the directory of the cache the process opened                 *)
(*   disk    the rows each cache directory held when it was last closed    *)
(***************************************************************************)
VARIABLES store, now, pc, cur, hist, nCalls, twin, sets, ops, boot, env, dir, disk

vars == <<store, now, pc, cur, hist, nCalls, twin, sets, ops, boot, env, dir, disk>>

\* what a step of a calculation call leaves alone
aux == <<ops, boot, env, dir, disk>>

Procs == {1, 2}

NoCall == [req |-> NoRequest, key |-> None, sent |-> None, headers |-> None,
           resp |-> NoResponse, ev |-> <<>>, t0 |-> 0, store0 |-> EmptyStore,
           boot |-> 0, dir |-> ""]

\* the record of a call that ended: outcome is "returned" or the exception raised
Completed(c, outcome, status, message, result, ev, st) ==
  [req |-> c.req, key |-> c.key, sent |-> c.sent, headers |-> c.headers,
   resp |-> c.resp, outcome |-> outcome, boot |-> c.boot, dir |-> c.dir,
   status |-> status, message |-> message, result |-> result, ev |-> ev,
   t0 |-> c.t0, t1 |-> now, store0 |-> c.store0, store1 |-> st]

Remember(h, r) == IF Len(h) < 2 THEN Append(h, r) ELSE <<h[2], r>>

\* the call of caller p ends
Finish(p, c, outcome, status, message, result, ev, st) ==
  /\ hist' = Remember(hist, Completed(c, outcome, status, message, result, ev, st))
  /\ pc' = [pc EXCEPT ![p] = "idle"]
  /\ cur' = [cur EXCEPT ![p] = NoCall]
  /\ store' = st

\* return CalculationResponse(**data), which raises when data does not fit
ReturnResponse(p, c, data, ev, st) ==
  LET r == CalculationResponse(data)
  IN IF r.ok
       THEN Finish(p, c, "returned", 0, Str(""), r.obj, ev \o <<"return">>, st)
       ELSE Finish(p, c, r.err, 0, Str(""), None, ev, st)

\* Lookup that renews the entry it reads (a sliding expiration)
LookupRenewing(p, c, fault) ==
  IF fault
    THEN Finish(p, c, "StorageError", 0, Str(""), None, <<"lookup">>, store)
    ELSE LET cached_response == get_cached(store, c.key, now)
         IN IF Truthy(cached_response)
              THEN ReturnResponse(p, c, cached_response, <<"lookup">>,
                                  set_cached(store, c.key, cached_response, DefaultTtl, now))
              ELSE /\ pc' = [pc EXCEPT ![p] = "remote"]
                   /\ cur' = [cur EXCEPT ![p] = [c EXCEPT !.ev = <<"lookup">>]]
                   /\ UNCHANGED <<store, hist>>

\* the part the two calculation calls share: get_cached, then return the
\* cached response or go on to the request.  fault: cache.get raises.
Lookup(p, c, fault) ==
  IF fault
    THEN Finish(p, c, "StorageError", 0, Str(""), None, <<"lookup">>, store)
    ELSE LET cached_response == get_cached(store, c.key, now)
         IN IF Truthy(cached_response)
              THEN ReturnResponse(p, c, cached_response, <<"lookup">>, store)
              ELSE /\ pc' = [pc EXCEPT ![p] = "remote"]
                   /\ cur' = [cur EXCEPT ![p] = [c EXCEPT !.ev = <<"lookup">>]]
                   /\ UNCHANGED <<store, hist>>

NewCall(req, key, sent) ==
  [req |-> req, key |-> key, sent |-> sent,
   headers |-> IF IsNone(sent) THEN None ELSE Headers(req),
   resp |-> NoResponse, ev |-> <<>>, t0 |-> now, store0 |-> store,
   boot |-> boot, dir |-> dir]

\* the call made in the twin run in place of req
Mirror(req) ==
  WithApiKey(req, IF req.api_key = Str("key-A") THEN Str("key-B") ELSE Str("key-A"))

\* calculate_guidelines(parameter, media, context, target_unit), up to the
\* return of a cached response or the posting of the request
calculate_guidelines(p, req, fault) ==
  /\ pc[p] = "idle"
  /\ UNCHANGED aux
  /\ nCalls < MaxCalls
  /\ nCalls' = nCalls + 1
  /\ now' = now
  /\ UNCHANGED <<twin, sets>>
  /\ Lookup(p, NewCall(req, cache_key(req), CalculateBody(req)), fault)

\* TooMany with the limit off by one
TooManyOffByOne(parameters) == PyLen(parameters) >= MaxBatch

\* len(parameters) > 50
TooMany(parameters) == PyLen(parameters) > MaxBatch

\* calculate_batch(parameters, media, context), up to the return of a
\* cached response or the posting of the request
calculate_batch(p, req, fault) ==
  /\ pc[p] = "idle"
  /\ UNCHANGED aux
  /\ nCalls < MaxCalls
  /\ nCalls' = nCalls + 1
  /\ now' = now
  /\ UNCHANGED <<twin, sets>>
  /\ IF TooMany(req.parameter)
       THEN Finish(p, NewCall(req, None, None), "ValueError", 0,
                   Str("Maximum 50 parameters per batch request"), None, <<>>, store)
       ELSE Lookup(p, NewCall(req, cache_key(req), BatchBody(req)), fault)

\* the answers the service may give to the request caller p has posted
Answers(p) == IF pc[p] = "remote" THEN Responses(cur[p].req) ELSE {}

\* Respond with one more attempt after a request that failed or timed out
RespondRetrying(p, response) ==
  /\ pc[p] = "remote"
  /\ UNCHANGED aux
  /\ UNCHANGED <<now, nCalls, twin, sets>>
  /\ LET c == [cur[p] EXCEPT !.resp = response, !.ev = @ \o <<"remote">>]
         e == Raised(response)
     IN IF e # NoError /\ Len(c.ev) < 3
          THEN /\ cur' = [cur EXCEPT ![p] = c]
               /\ UNCHANGED <<pc, store, hist>>
        ELSE IF e # NoError
          THEN Finish(p, c, e.err, e.status_code, e.message, None, c.ev, store)
          ELSE /\ pc' = [pc EXCEPT ![p] = "write"]
               /\ cur' = [cur EXCEPT ![p] = c]
               /\ UNCHANGED <<store, hist>>

\* the response to the posted request arrives, or the request times out
Respond(p, response) ==
  /\ pc[p] = "remote"
  /\ UNCHANGED aux
  /\ UNCHANGED <<now, nCalls, twin, sets>>
  /\ LET c == [cur[p] EXCEPT !.resp = response, !.ev = @ \o <<"remote">>]
         e == Raised(response)
     IN IF e # NoError
          THEN Finish(p, c, e.err, e.status_code, e.message, None, c.ev, store)
          ELSE /\ pc' = [pc EXCEPT ![p] = "write"]
               /\ cur' = [cur EXCEPT ![p] = c]
               /\ UNCHANGED <<store, hist>>

\* Write with the result handed back before the entry is written
WriteAfterReturn(p, fault) ==
  /\ pc[p] = "write"
  /\ UNCHANGED aux
  /\ UNCHANGED <<now, nCalls>>
  /\ LET c == cur[p]
         data == c.resp.json
         r == CalculationResponse(data)
     IN IF fault \/ ~r.ok
          THEN /\ Finish(p, c, IF r.ok THEN "StorageError" ELSE r.err, 0, Str(""), None,
                         c.ev, store)
               /\ UNCHANGED <<twin, sets>>
          ELSE /\ Finish(p, c, "returned", 0, Str(""), r.obj,
                         c.ev \o <<"return", "write">>,
                         set_cached(store, c.key, data, DefaultTtl, now))
               /\ twin' = set_cached(twin, cache_key(Mirror(c.req)), data,
                                     DefaultTtl, now)
               /\ sets' = sets \cup {[key |-> c.key, value |-> data,
                                       expire |-> now + DefaultTtl]}

\* set_cached(cache_key, data), then return CalculationResponse(**data).
\* fault: cache.set raises.
Write(p, fault) ==
  /\ pc[p] = "write"
  /\ UNCHANGED aux
  /\ UNCHANGED <<now, nCalls>>
  /\ LET c == cur[p]
     IN IF fault
          THEN /\ Finish(p, c, "StorageError", 0, Str(""), None, c.ev, store)
               /\ UNCHANGED <<twin, sets>>
          ELSE LET data == c.resp.json
               IN /\ ReturnResponse(p, c, data, c.ev \o <<"write">>,
                                    set_cached(store, c.key, data, DefaultTtl, now))
                  /\ twin' = set_cached(twin, cache_key(Mirror(c.req)), data,
                                        DefaultTtl, now)
                  /\ sets' = sets \cup {[key |-> c.key, value |-> data,
                                          expire |-> now + DefaultTtl]}

\* time passes
Tick ==
  /\ now < MaxTicks * TickStep
  /\ now' = now + TickStep
  /\ UNCHANGED <<store, pc, cur, hist, nCalls, twin, sets>>
  /\ UNCHANGED aux

Init ==
  /\ store = EmptyStore
  /\ now = 0
  /\ pc = [p \in Procs |-> "idle"]
  /\ cur = [p \in Procs |-> NoCall]
  /\ hist = <<>>
  /\ nCalls = 0
  /\ twin = EmptyStore
  /\ sets = {}
  /\ ops = <<>>
  /\ boot = 0
  /\ env = None
  /\ dir = CACHE_DIR(None)
  /\ disk = [d \in Directories |-> EmptyStore]

(***************************************************************************)
(* Direct uses of the cache module: set_cached and get_cached with keys    *)
(* and values of the caller, and cache.clear().                            *)
(***************************************************************************)
\* a ttl a caller passes to set_cached
ShortTtl == 3600

\* the record of a direct use of the cache
CacheOp(op, key, value, ttl, result, st) ==
  [op |-> op, key |-> key, value |-> value, ttl |-> ttl, result |-> result,
   t |-> now, before |-> store, after |-> st, resp |-> NoResponse, outcome |-> "returned",
   status |-> 0, message |-> Str("")]

\* the keys and values the callers of the cache module use
Key1 == Dict(<< <<Str("a"), Num(1)>> >>)
Key2 == Dict(<< <<Str("a"), Num(2)>> >>)
KeyNested ==
  Dict(<< <<Str("endpoint"), Str("calculate/batch")>>,
          <<Str("parameters"),
            List(<<Al, Dict(<< <<Str("name"), Cu>>, <<Str("target_unit"), Str("mg/L")>> >>)>>)>>,
          <<Str("media"), Water>>,
          <<Str("context"), CtxAB>>,
          <<Str("api_key"), None>> >>)
Value1 == Str("value1")
ValueResponse ==
  Dict(<< <<Str("results"), List(<<>>)>>, <<Str("context"), Dict(<<>>)>>,
          <<Str("total_count"), Num(0)>> >>)

CacheKeys == {Key1, Key2, KeyNested}
CacheValues == {Value1, ValueResponse}
Ttls == {DefaultTtl, ShortTtl}

\* SetCached that empties the cache before it writes
SetCachedEvicting(key_data, value, ttl) ==
  /\ nCalls < MaxCalls
  /\ nCalls' = nCalls + 1
  /\ store' = set_cached(EmptyStore, key_data, value, ttl, now)
  /\ ops' = Remember(ops, CacheOp("set", key_data, value, ttl, None, store'))
  /\ sets' = sets \cup {[key |-> key_data, value |-> value, expire |-> now + ttl]}
  /\ UNCHANGED <<now, pc, cur, hist, twin, boot, env, dir, disk>>

\* a caller's set_cached(key_data, value, ttl)
SetCached(key_data, value, ttl) ==
  /\ nCalls < MaxCalls
  /\ nCalls' = nCalls + 1
  /\ store' = set_cached(store, key_data, value, ttl, now)
  /\ ops' = Remember(ops, CacheOp("set", key_data, value, ttl, None, store'))
  /\ sets' = sets \cup {[key |-> key_data, value |-> value, expire |-> now + ttl]}
  /\ UNCHANGED <<now, pc, cur, hist, twin, boot, env, dir, disk>>

\* a caller's get_cached(key_data)
GetCached(key_data) ==
  /\ nCalls < MaxCalls
  /\ nCalls' = nCalls + 1
  /\ ops' = Remember(ops, CacheOp("get", key_data, None, 0,
                                   get_cached(store, key_data, now), store))
  /\ UNCHANGED <<store, now, pc, cur, hist, twin, sets, boot, env, dir, disk>>

\* Clear that removes the expired rows only (cache.expire())
ClearExpiredOnly ==
  /\ store # EmptyStore
  /\ store' = [k \in {x \in DOMAIN store : store[x].expire > now} |-> store[k]]
  /\ ops' = Remember(ops, CacheOp("clear", None, None, 0, None, store'))
  /\ UNCHANGED <<now, pc, cur, hist, nCalls, twin, sets, boot, env, dir, disk>>

\* cache.clear(): every row is removed
Clear ==
  /\ store # EmptyStore
  /\ store' = EmptyStore
  /\ ops' = Remember(ops, CacheOp("clear", None, None, 0, None, store'))
  /\ UNCHANGED <<now, pc, cur, hist, nCalls, twin, sets, boot, env, dir, disk>>

\* Restart with a cache that lives in memory only
RestartLosingStore(setting) ==
  /\ boot < MaxBoots
  /\ boot' = boot + 1
  /\ env' = setting
  /\ dir' = CACHE_DIR(setting)
  /\ disk' = disk
  /\ store' = EmptyStore
  /\ pc' = [p \in Procs |-> "idle"]
  /\ cur' = [p \in Procs |-> NoCall]
  /\ UNCHANGED <<now, hist, nCalls, twin, sets, ops>>

\* The process exits and a new one starts, with GUIDELINELY_CACHE_DIR set to
\* setting: the calls in progress are lost, the rows stay in the directory
\* of the cache, and importing the cache module opens the cache of CACHE_DIR.
Restart(setting) ==
  /\ boot < MaxBoots
  /\ boot' = boot + 1
  /\ env' = setting
  /\ dir' = CACHE_DIR(setting)
  /\ disk' = [disk EXCEPT ![dir] = store]
  /\ store' = disk'[dir']
  /\ pc' = [p \in Procs |-> "idle"]
  /\ cur' = [p \in Procs |-> NoCall]
  /\ UNCHANGED <<now, hist, nCalls, twin, sets, ops>>

\* One caller, whose calls follow one another; the service may fail or time
\* out and the store may fail.
Next ==
  \/ \E req \in CoreCalculateInputs, fault \in BOOLEAN :
       calculate_guidelines(1, req, fault)
  \/ \E req \in CoreBatchInputs, fault \in BOOLEAN : calculate_batch(1, req, fault)
  \/ \E response \in Answers(1) : Respond(1, response)
  \/ \E fault \in BOOLEAN : Write(1, fault)
  \/ Tick

Spec == Init /\ [][Next]_vars

\* the answers of a service that works
GoodAnswers(p) ==
  IF pc[p] = "remote" THEN {Response(FALSE, 200, TRUE, Payload(cur[p].req, 1))} ELSE {}

\* One caller with the full range of requests; the store and the service work.
NextKeys ==
  \/ \E req \in CalculateInputs : calculate_guidelines(1, req, FALSE)
  \/ \E req \in BatchInputs : calculate_batch(1, req, FALSE)
  \/ \E response \in GoodAnswers(1) : Respond(1, response)
  \/ Write(1, FALSE)
  \/ Tick

SpecKeys == Init /\ [][NextKeys]_vars

\* One caller whose calls carry each value of api_key; the store and the
\* service work.
NextApi ==
  \/ \E req \in CoreCalculateInputs, api_key \in ApiKeys :
       calculate_guidelines(1, WithApiKey(req, api_key), FALSE)
  \/ \E req \in CoreBatchInputs, api_key \in ApiKeys :
       calculate_batch(1, WithApiKey(req, api_key), FALSE)
  \/ \E response \in GoodAnswers(1) : Respond(1, response)
  \/ Write(1, FALSE)
  \/ Tick

SpecApi == Init /\ [][NextApi]_vars

\* the answers of a service that works and whose payload changes between
\* invocations
FreshAnswers(p) ==
  IF pc[p] = "remote"
    THEN {Response(FALSE, 200, TRUE, Payload(cur[p].req, ver)) : ver \in {1, 2}}
    ELSE {}

\* Two callers, threads or processes, that share the store: the steps of
\* their calls interleave, and each get_cached and each set_cached is one
\* step, as cache.get and cache.set are one transaction each.
NextConc ==
  \/ \E p \in Procs, req \in CoreCalculateInputs : calculate_guidelines(p, req, FALSE)
  \/ \E p \in Procs, req \in CoreBatchInputs : calculate_batch(p, req, FALSE)
  \/ \E p \in Procs : \E response \in FreshAnswers(p) : Respond(p, response)
  \/ \E p \in Procs : Write(p, FALSE)
  \/ Tick

SpecConc == Init /\ [][NextConc]_vars

\* One caller whose calls differ in the endpoint or in one argument; the
\* store and the service work.
NextDistinct ==
  \/ \E req \in DistinctCalculateInputs : calculate_guidelines(1, req, FALSE)
  \/ \E req \in DistinctBatchInputs : calculate_batch(1, req, FALSE)
  \/ \E response \in GoodAnswers(1) : Respond(1, response)
  \/ Write(1, FALSE)
  \/ Tick

SpecDistinct == Init /\ [][NextDistinct]_vars

\* One caller that uses the cache module directly and makes calculation
\* calls; the store and the service work.
NextCache ==
  \/ \E key_data \in CacheKeys, value \in CacheValues, ttl \in Ttls :
       SetCached(key_data, value, ttl)
  \/ \E key_data \in CacheKeys : GetCached(key_data)
  \/ \E req \in CoreCalculateInputs : calculate_guidelines(1, req, FALSE)
  \/ \E response \in GoodAnswers(1) : Respond(1, response)
  \/ Write(1, FALSE)
  \/ Tick

SpecCache == Init /\ [][NextCache]_vars

\* One caller that makes calculation calls and clears the cache between or
\* during them; the store and the service work.
NextClear ==
  \/ \E req \in CoreCalculateInputs : calculate_guidelines(1, req, FALSE)
  \/ \E req \in CoreBatchInputs : calculate_batch(1, req, FALSE)
  \/ \E response \in GoodAnswers(1) : Respond(1, response)
  \/ Write(1, FALSE)
  \/ Clear
  \/ Tick

SpecClear == Init /\ [][NextClear]_vars

\* One caller whose process is restarted between or during its calls; the
\* store and the service work.
NextRestart ==
  \/ \E req \in CoreCalculateInputs : calculate_guidelines(1, req, FALSE)
  \/ \E response \in GoodAnswers(1) : Respond(1, response)
  \/ Write(1, FALSE)
  \/ \E setting \in CacheDirSettings : Restart(setting)
  \/ Tick

SpecRestart == Init /\ [][NextRestart]_vars

(***************************************************************************)
(* Vocabulary of the properties.                                           *)
(***************************************************************************)
\* the number of times event e happened in a call
Count(ev, e) == Cardinality({i \in DOMAIN ev : ev[i] = e})

\* the completed calls on record
Calls == {hist[i] : i \in DOMAIN hist}

\* the call got past validation and cache.get answered
LookedUp(h) == h.ev # <<>> /\ ~(h.outcome = "StorageError" /\ h.ev = <<"lookup">>)

\* cache.get raised in the call
GetFailed(h) == h.outcome = "StorageError" /\ h.ev = <<"lookup">>

\* the store st holds a row for the key that has not expired at time t
Live(st, key, t) == Pickle(key) \in DOMAIN st /\ st[Pickle(key)].expire > t

\* b is the call issued right after a, on the store a left behind
Succeeds(a, b) ==
  /\ Len(hist) = 2 /\ a = hist[1] /\ b = hist[2]
  /\ b.store0 = a.store1

\* a == b, as Python compares values: dicts regardless of insertion order
RECURSIVE PyEq(_, _)
PyEq(a, b) ==
  IF IsDict(a) /\ IsDict(b)
    THEN /\ Len(a.dict) = Len(b.dict)
         /\ \A i \in 1..Len(a.dict) : \E j \in 1..Len(b.dict) :
              a.dict[i][1] = b.dict[j][1] /\ PyEq(a.dict[i][2], b.dict[j][2])
  ELSE IF IsList(a) /\ IsList(b)
    THEN /\ Len(a.list) = Len(b.list)
         /\ \A i \in 1..Len(a.list) : PyEq(a.list[i], b.list[i])
  ELSE a = b

\* s and t hold the same elements, each as many times
IsPermutation(s, t) ==
  /\ Len(s) = Len(t)
  /\ \A x \in {s[i] : i \in DOMAIN s} :
        Cardinality({i \in DOMAIN s : s[i] = x}) = Cardinality({i \in DOMAIN t : t[i] = x})

\* the lists a and b hold the same elements in a different order
Reordered(a, b) ==
  IsList(a) /\ IsList(b) /\ a # b /\ IsPermutation(a.list, b.list)

\* the parameter(s) argument a cache key was built from
KeyParameter(key) ==
  IF HasKey(key, "parameters") THEN GetItem(key, "parameters")
  ELSE GetItem(key, "parameter")

(***************************************************************************)
(* C1.  When the same calculation call (calculate_guidelines or            *)
(* calculate_batch) is issued twice in succession and the first returned,  *)
(* the second performs no remote invocation and returns the same results   *)
(* and total_count.  "In succession": the second call starts on the store  *)
(* the first left, while the entry is unexpired, and the store answers.    *)
(***************************************************************************)
C1_RepeatIsCacheHit ==
  \A a, b \in Calls :
    ( /\ Succeeds(a, b)
      /\ a.req = b.req
      /\ a.outcome = "returned"
      /\ Live(a.store1, a.key, b.t0)
      /\ ~GetFailed(b) )
    => /\ Count(b.ev, "remote") = 0
       /\ b.outcome = "returned"
       /\ GetItem(b.result, "results") = GetItem(a.result, "results")
       /\ GetItem(b.result, "total_count") = GetItem(a.result, "total_count")

\* a batch call answered by the service, then the same call answered from the cache
C1_Witness ==
  \E a, b \in Calls :
    /\ Succeeds(a, b) /\ a.req = b.req /\ a.req.op = "batch"
    /\ a.outcome = "returned" /\ a.ev = <<"lookup", "remote", "write", "return">>
    /\ b.outcome = "returned" /\ b.ev = <<"lookup", "return">>

(***************************************************************************)
(* C2.  Two calculation requests that are identical except for the         *)
(* insertion order of the keys inside a context mapping share one cache    *)
(* key: after one was answered and cached, the other is a cache hit and    *)
(* performs no remote invocation.                                          *)
(***************************************************************************)
C2_ContextKeyOrderIgnored ==
  \A a, b \in Calls :
    ( /\ Succeeds(a, b)
      /\ a.req.op = b.req.op
      /\ a.req.parameter = b.req.parameter
      /\ a.req.media = b.req.media
      /\ a.req.target_unit = b.req.target_unit
      /\ PyEq(a.req.context, b.req.context)
      /\ a.outcome = "returned"
      /\ Live(a.store1, a.key, b.t0) )
    => /\ Pickle(a.key) = Pickle(b.key)
       /\ Count(b.ev, "remote") = 0

(***************************************************************************)
(* C3.  Requests whose parameters list or contexts list holds the same     *)
(* elements in a different order have different cache keys: a call is      *)
(* never answered from an entry that was stored for another ordering.      *)
(***************************************************************************)
C3_ListOrderIsKept ==
  \A h \in Calls :
    (LookedUp(h) /\ Count(h.ev, "remote") = 0)
    => LET entry == h.store0[Pickle(h.key)]
       IN /\ ~Reordered(KeyParameter(entry.key), h.req.parameter)
          /\ ~Reordered(GetItem(entry.key, "context"), h.req.context)

\* the entry of one ordering is live, and the call with the other ordering
\* of the parameters (or of the contexts) goes to the service
C3_Witness ==
  \E a, b \in Calls :
    /\ Succeeds(a, b)
    /\ a.req.op = "batch" /\ b.req.op = "batch"
    /\ Reordered(a.req.parameter, b.req.parameter)
    /\ a.req.context = b.req.context /\ a.req.media = b.req.media
    /\ a.outcome = "returned"
    /\ Live(b.store0, a.key, b.t0)
    /\ Count(b.ev, "remote") = 1

(***************************************************************************)
(* C4.  calculate_batch with exactly 50 parameters is accepted and goes on *)
(* to the cache lookup; with 51 or more it fails with a validation error   *)
(* (ValueError), and that call performs no cache lookup, no remote         *)
(* invocation and no cache write: the store is unchanged.                  *)
(***************************************************************************)
C4_BatchLimit ==
  /\ \A h \in Calls :
       h.req.op = "batch" =>
         /\ PyLen(h.req.parameter) > MaxBatch =>
              /\ h.outcome = "ValueError"
              /\ h.ev = <<>>
              /\ h.store1 = h.store0
         /\ PyLen(h.req.parameter) <= MaxBatch =>
              /\ h.outcome # "ValueError"
              /\ Count(h.ev, "lookup") = 1
  /\ \A p \in Procs :
       pc[p] # "idle" /\ cur[p].req.op = "batch" => PyLen(cur[p].req.parameter) <= MaxBatch

\* a batch of 50 was answered, then a batch of 51 was rejected with the
\* entry of the first still in the store
C4_Witness ==
  \E a, b \in Calls :
    /\ Succeeds(a, b)
    /\ a.req.op = "batch" /\ PyLen(a.req.parameter) = MaxBatch
    /\ a.ev = <<"lookup", "remote", "write", "return">>
    /\ b.req.op = "batch" /\ PyLen(b.req.parameter) = MaxBatch + 1
    /\ b.outcome = "ValueError"
    /\ store = a.store1 /\ store # EmptyStore

(***************************************************************************)
(* C5.  A calculation call whose media is empty, or whose parameter        *)
(* sequence is empty, fails with a validation error before any cache       *)
(* lookup or remote invocation.                                            *)
(***************************************************************************)
C5_EmptyInputRejected ==
  \A h \in Calls :
    (h.req.media = Str("") \/ h.req.parameter = List(<<>>))
    => h.outcome = "ValueError" /\ h.ev = <<>>

(***************************************************************************)
(* C6.  When the service answers a calculation call with a failure status  *)
(* (404, 500), the call raises GuidelinelyAPIError with that status code,  *)
(* writes no cache entry, and the identical call issued next invokes the   *)
(* service again.                                                          *)
(***************************************************************************)
C6_RemoteFaultNotCached ==
  /\ \A h \in Calls :
       (~h.resp.timeout /\ h.resp.status \notin {0, 200})
       => /\ h.outcome = "GuidelinelyAPIError"
          /\ h.status = h.resp.status
          /\ Count(h.ev, "write") = 0
          /\ h.store1 = h.store0
  /\ \A a, b \in Calls :
       ( /\ Succeeds(a, b)
         /\ a.req = b.req
         /\ a.outcome = "GuidelinelyAPIError"
         /\ ~GetFailed(b) )
       => Count(b.ev, "remote") = 1

\* a call failed with status 500 and the same call, issued again, went to the service
C6_Witness ==
  \E a, b \in Calls :
    /\ Succeeds(a, b) /\ a.req = b.req
    /\ a.resp.status = 500 /\ a.outcome = "GuidelinelyAPIError" /\ a.status = 500
    /\ Count(b.ev, "remote") = 1

(***************************************************************************)
(* C7.  When the remote call of a calculation times out, the call raises   *)
(* GuidelinelyTimeoutError, which is not the error raised for a failure    *)
(* status, and the call leaves the store unchanged.                        *)
(***************************************************************************)
C7_TimeoutNotCached ==
  \A h \in Calls :
    h.resp.timeout
    => /\ h.outcome = "GuidelinelyTimeoutError"
       /\ h.outcome # _handle_error(h.resp).err
       /\ Count(h.ev, "write") = 0
       /\ h.store1 = h.store0

\* a call timed out while the store held an entry
C7_Witness ==
  \E h \in Calls :
    /\ h.resp.timeout /\ h.outcome = "GuidelinelyTimeoutError"
    /\ h.ev = <<"lookup", "remote">>
    /\ h.store0 # EmptyStore

(***************************************************************************)
(* C8.  A get for a key whose entry's TTL has elapsed (now > stored_at +   *)
(* ttl) returns None, as a get for a key that was never stored does; the   *)
(* next calculation call for such a key invokes the service.               *)
(***************************************************************************)
C8_ExpiredIsAbsent ==
  /\ \A k \in DOMAIN store :
       now > store[k].expire
       => /\ get_cached(store, store[k].key, now) = None
          /\ get_cached(store, store[k].key, now) = get_cached(EmptyStore, store[k].key, now)
  /\ \A h \in Calls :
       ( /\ LookedUp(h)
         /\ \/ Pickle(h.key) \notin DOMAIN h.store0
            \/ h.t0 > h.store0[Pickle(h.key)].expire )
       => Count(h.ev, "remote") = 1

\* a call found the well-formed entry of its key expired and went to the service
C8_Witness ==
  \E h \in Calls :
    /\ LookedUp(h)
    /\ Pickle(h.key) \in DOMAIN h.store0
    /\ IsCalculationResponse(h.store0[Pickle(h.key)].value)
    /\ h.t0 > h.store0[Pickle(h.key)].expire
    /\ Count(h.ev, "remote") = 1

(***************************************************************************)
(* C9.  A set for a key that already has an entry, expired or not,         *)
(* replaces the value and restarts the expiration clock at the time of the *)
(* set: the entry is live until set time + ttl, whatever lifetime the      *)
(* previous entry had left.                                                *)
(***************************************************************************)
C9_SetOverwrites ==
  \A h \in Calls :
    Count(h.ev, "write") = 1
    => LET entry == h.store1[Pickle(h.key)]
       IN /\ entry.value = h.resp.json
          /\ entry.expire = h.t1 + DefaultTtl
          /\ \A t \in {h.t1 + i * TickStep : i \in 0..MaxTicks} :
               t < h.t1 + DefaultTtl => get_cached(h.store1, h.key, t) = h.resp.json

\* a set replaced an unexpired entry that held another value and another
\* expiration time
C9_Witness ==
  \E h \in Calls :
    /\ Count(h.ev, "write") = 1
    /\ Live(h.store0, h.key, h.t1)
    /\ h.store0[Pickle(h.key)].value # h.resp.json
    /\ h.store0[Pickle(h.key)].expire < h.t1 + DefaultTtl
    /\ Truthy(h.resp.json)

(***************************************************************************)
(* C10.  When the store fails on the lookup of a calculation call, the     *)
(* call treats the failure as a cache miss, goes on to the remote          *)
(* invocation and returns its result; the storage failure is not raised    *)
(* to the caller.                                                          *)
(***************************************************************************)
C10_GetFailureIsMiss ==
  \A h \in Calls :
    (Count(h.ev, "lookup") = 1 /\ Count(h.ev, "remote") = 0)
    => h.outcome # "StorageError"

(***************************************************************************)
(* C11.  When the remote invocation succeeds and the cache write (set)     *)
(* fails, the call still returns the successful result: every completed    *)
(* call whose request was answered with status 200 and a payload that      *)
(* CalculationResponse accepts has returned.                               *)
(***************************************************************************)
C11_SetFailureStillReturns ==
  \A h \in Calls :
    (/\ Count(h.ev, "remote") = 1
     /\ Raised(h.resp) = NoError
     /\ CalculationResponse(h.resp.json).ok)
    => h.outcome = "returned"

(***************************************************************************)
(* C12.  The cache key and the cached value never depend on the API key.   *)
(* The twin run makes the same calls at the same times and receives the    *)
(* same payloads, each call with another api_key: after every step the     *)
(* store of the twin run is the store of this run, and the key of every    *)
(* call is the key the twin call builds.                                   *)
(***************************************************************************)
C12_StoreIgnoresApiKey ==
  /\ twin = store
  /\ \A c \in Calls \cup {cur[p] : p \in Procs} :
       ~IsNone(c.key) => c.key = cache_key(Mirror(c.req))

\* a call that sent key-A stored a payload, and the next call, made with
\* key-B, was answered from that entry
C12_Witness ==
  /\ Len(hist) = 2
  /\ hist[1].req.api_key = Str("key-A")
  /\ Count(hist[1].ev, "write") = 1
  /\ DictGet(hist[1].headers, "X-API-KEY") = Str("key-A")
  /\ hist[2].req = WithApiKey(hist[1].req, Str("key-B"))
  /\ hist[2].outcome = "returned"
  /\ Count(hist[2].ev, "remote") = 0
  /\ store # EmptyStore

\* the calls on record and the calls in progress
AllCalls == Calls \cup {cur[p] : p \in Procs}

\* the response c received is a success: status 200 and a JSON body
Answered(c) == ~c.resp.timeout /\ c.resp.status = 200 /\ c.resp.parses

(***************************************************************************)
(* C13.  Within one call: the cache lookup comes before any remote         *)
(* invocation; the cache write comes only after a successful remote        *)
(* response of this call; and the write is complete before the call        *)
(* returns, so a call that returns the answer of the service has written   *)
(* it first.                                                               *)
(***************************************************************************)
C13_CallOrder ==
  /\ \A h \in Calls :
       (h.outcome = "returned" /\ Count(h.ev, "remote") > 0)
       => /\ Pickle(h.key) \in DOMAIN h.store1
          /\ h.store1[Pickle(h.key)].value = h.resp.json
  /\ \A c \in AllCalls :
       \A i \in DOMAIN c.ev :
         /\ c.ev[i] = "remote" => \E j \in 1..(i - 1) : c.ev[j] = "lookup"
         /\ c.ev[i] = "write" =>
              /\ \E j \in 1..(i - 1) : c.ev[j] = "remote"
              /\ Answered(c)
         /\ c.ev[i] = "return" =>
              /\ \A j \in DOMAIN c.ev : c.ev[j] = "write" => j < i
              /\ Count(c.ev, "remote") > 0 => Count(c.ev, "write") > 0

\* a call looked up, invoked the service, wrote the answer and returned
C13_Witness ==
  \E h \in Calls :
    /\ h.ev = <<"lookup", "remote", "write", "return">>
    /\ h.outcome = "returned"
    /\ Live(h.store1, h.key, h.t1)

\* the row of the store under k, as a call to set_cached asks for it
RowOf(st, k) == [key |-> st[k].key, value |-> st[k].value, expire |-> st[k].expire]

(***************************************************************************)
(* C14.  Under any interleaving of the calls of several callers that share *)
(* one store, every value a get returns is absent or exactly one complete  *)
(* payload that a single set stored for that key: every row of the store   *)
(* is, whole, the row one call to set_cached wrote under its key, and      *)
(* what a lookup returned is None or the value of one such set for the key *)
(* looked up.                                                              *)
(***************************************************************************)
C14_GetIsOneWholeSet ==
  /\ \A k \in DOMAIN store : RowOf(store, k) \in sets /\ Pickle(store[k].key) = k
  /\ \A c \in AllCalls :
       Count(c.ev, "lookup") = 1 =>
         LET v == get_cached(c.store0, c.key, c.t0)
         IN \/ IsNone(v)
            \/ \E s \in sets : s.key = c.key /\ s.value = v

\* the two callers wrote two payloads under one key at different times, and
\* the row holds the second whole
C14_Witness ==
  /\ Len(hist) = 2
  /\ hist[1].key = hist[2].key
  /\ Count(hist[1].ev, "write") = 1
  /\ Count(hist[2].ev, "write") = 1
  /\ hist[2].t0 < hist[1].t1
  /\ hist[1].t1 < hist[2].t1
  /\ hist[1].resp.json # hist[2].resp.json
  /\ RowOf(store, Pickle(hist[2].key)) =
       [key |-> hist[2].key, value |-> hist[2].resp.json,
        expire |-> hist[2].t1 + DefaultTtl]

\* the lookup of call c found nothing
Missed(c) == Count(c.ev, "lookup") = 1 /\ IsNone(get_cached(c.store0, c.key, c.t0))

\* call c returned the payload the service answered it with
ReturnedOwnPayload(c) ==
  /\ c.outcome = "returned"
  /\ c.result = CalculationResponse(c.resp.json).obj

(***************************************************************************)
(* C15.  Two calls for the same key may both miss and both invoke the      *)
(* remote.  When both complete successfully the stored entry is the        *)
(* payload of the call whose set completed last, and both callers receive  *)
(* a successful result: of two completed calls for one key that both       *)
(* missed, each invoked the remote once, and when both wrote, the entry    *)
(* the later one left is its own payload and each returned its own         *)
(* payload.  hist holds the calls in the order their sets completed.       *)
(***************************************************************************)
C15_LastSetWins ==
  (/\ Len(hist) = 2
   /\ hist[1].key = hist[2].key
   /\ ~IsNone(hist[1].key)
   /\ Missed(hist[1])
   /\ Missed(hist[2]))
  => /\ Count(hist[1].ev, "remote") = 1
     /\ Count(hist[2].ev, "remote") = 1
     /\ (Count(hist[1].ev, "write") = 1 /\ Count(hist[2].ev, "write") = 1)
        => /\ Pickle(hist[2].key) \in DOMAIN hist[2].store1
           /\ hist[2].store1[Pickle(hist[2].key)].value = hist[2].resp.json
           /\ ReturnedOwnPayload(hist[1])
           /\ ReturnedOwnPayload(hist[2])

\* the second call looked up before the first wrote: both missed, both
\* invoked the remote, the answers differ, and the entry is the later one
C15_Witness ==
  /\ Len(hist) = 2
  /\ hist[1].key = hist[2].key
  /\ Missed(hist[1])
  /\ Missed(hist[2])
  /\ Pickle(hist[1].key) \notin DOMAIN hist[2].store0
  /\ Pickle(hist[1].key) \in DOMAIN hist[1].store1
  /\ hist[1].ev = <<"lookup", "remote", "write", "return">>
  /\ hist[2].ev = <<"lookup", "remote", "write", "return">>
  /\ hist[1].resp.json # hist[2].resp.json
  /\ store[Pickle(hist[2].key)].value = hist[2].resp.json
  /\ hist[1].result # hist[2].result

(***************************************************************************)
(* C16.  Each call invokes the remote at most once: after a failure status *)
(* or a timeout the call ends with that failure and makes no second        *)
(* invocation.                                                             *)
(***************************************************************************)
C16_OneInvocation ==
  /\ \A c \in AllCalls : Count(c.ev, "remote") <= 1
  /\ \A p \in Procs : pc[p] # "idle" => Answered(cur[p]) \/ Count(cur[p].ev, "remote") = 0
  /\ \A h \in Calls :
       (Count(h.ev, "remote") = 1 /\ (h.resp.timeout \/ h.resp.status # 200))
       => /\ h.ev = <<"lookup", "remote">>
          /\ h.outcome \in {"GuidelinelyTimeoutError", "GuidelinelyAPIError"}
          /\ h.resp.timeout <=> h.outcome = "GuidelinelyTimeoutError"

\* one call ended on a timeout and one on a failure status, each after its
\* only invocation
C16_Witness ==
  /\ Len(hist) = 2
  /\ hist[1].resp.timeout
  /\ hist[1].outcome = "GuidelinelyTimeoutError"
  /\ hist[1].ev = <<"lookup", "remote">>
  /\ hist[2].resp.status = 500
  /\ hist[2].outcome = "GuidelinelyAPIError"
  /\ hist[2].ev = <<"lookup", "remote">>
  /\ \A p \in Procs : pc[p] = "idle"

(***************************************************************************)
(* C17.  The result echoes the context in the shape the caller used, from  *)
(* a fresh payload and from a cache hit alike: a call given one mapping    *)
(* returns it under context, and a call given a list of mappings returns   *)
(* the list, in order, under contexts.                                     *)
(***************************************************************************)
C17_ContextShapeEchoed ==
  \A h \in Calls :
    h.outcome = "returned" =>
      /\ IsDict(h.req.context) => DictGet(h.result, "context") = h.req.context
      /\ IsList(h.req.context) => DictGet(h.result, "contexts") = h.req.context

(***************************************************************************)
(* C18.  With a list of contexts and payload records tagged context_index, *)
(* every record of the result, fresh or from the cache, still carries its  *)
(* context_index, equal to the position of the context it was computed     *)
(* for (the service answers context by context, each with one record per   *)
(* parameter).                                                             *)
(***************************************************************************)
C18_ContextIndexKept ==
  \A h \in Calls :
    (h.outcome = "returned" /\ IsList(h.req.context)) =>
      LET records == GetItem(h.result, "results").list
          m == Len(NamesOf(h.req))
      IN /\ Len(records) = m * Len(h.req.context.list)
         /\ \A x \in DOMAIN records :
              DictGet(records[x], "context_index") = Num((x - 1) \div m)

\* an element of parameters as name and target_unit: a bare name has no unit
ParameterSpec(e) ==
  IF IsDict(e) THEN [name |-> GetItem(e, "name"), target_unit |-> DictGet(e, "target_unit")]
  ELSE [name |-> e, target_unit |-> None]

\* the lists of parameters a and b ask for the same names and units, in order
SameParameters(a, b) ==
  /\ IsList(a) /\ IsList(b)
  /\ Len(a.list) = Len(b.list)
  /\ \A i \in DOMAIN a.list : ParameterSpec(a.list[i]) = ParameterSpec(b.list[i])

(***************************************************************************)
(* C19.  In calculate_batch a bare parameter name and the object           *)
(* {name, target_unit: none} are one parameter: two batch calls whose      *)
(* parameters differ only in that form have the same cache key, and the    *)
(* second, made while the entry of the first is live, is a cache hit.      *)
(***************************************************************************)
C19_BareNameIsSugar ==
  \A a, b \in Calls :
    ( /\ Succeeds(a, b)
      /\ a.req.op = "batch" /\ b.req.op = "batch"
      /\ SameParameters(a.req.parameter, b.req.parameter)
      /\ a.req.media = b.req.media
      /\ a.req.context = b.req.context
      /\ a.outcome = "returned"
      /\ Live(a.store1, a.key, b.t0) )
    => /\ Pickle(a.key) = Pickle(b.key)
       /\ Count(b.ev, "remote") = 0

\* the context argument as the sequence of contexts it stands for
ContextsOf(context) == IF IsList(context) THEN context.list ELSE <<context>>

(***************************************************************************)
(* C20.  The context argument is normalized to a non-empty ordered         *)
(* sequence of contexts before the cache key is built: a call given the    *)
(* bare mapping C and the otherwise identical call given the list [C]      *)
(* have the same cache key, so the second, made while the entry of the     *)
(* first is live, is a cache hit.                                          *)
(***************************************************************************)
C20_SingleContextIsListOfOne ==
  \A a, b \in Calls :
    ( /\ Succeeds(a, b)
      /\ a.req.op = b.req.op
      /\ a.req.parameter = b.req.parameter
      /\ a.req.media = b.req.media
      /\ a.req.target_unit = b.req.target_unit
      /\ ~IsNone(a.req.context) /\ ~IsNone(b.req.context)
      /\ ContextsOf(a.req.context) = ContextsOf(b.req.context)
      /\ a.outcome = "returned"
      /\ Live(a.store1, a.key, b.t0) )
    => /\ Pickle(a.key) = Pickle(b.key)
       /\ Count(b.ev, "remote") = 0

\* the calls a and b have the same endpoint and the same arguments but api_key
SameRequest(a, b) ==
  /\ a.op = b.op
  /\ a.parameter = b.parameter
  /\ a.media = b.media
  /\ a.context = b.context
  /\ a.target_unit = b.target_unit

\* the lookup of call c returned a cached answer
Hit(c) == Count(c.ev, "lookup") = 1 /\ ~IsNone(get_cached(c.store0, c.key, c.t0))

(***************************************************************************)
(* C21.  Two calculation requests that differ in endpoint, in a parameter  *)
(* name, in media, in a context value or in target_unit have different     *)
(* cache keys, and a cached answer is only served for a request whose      *)
(* endpoint, parameters, media, contexts and target_unit equal those of    *)
(* the request that stored it: the row a hit reads was set under the key   *)
(* of an equal request, and a call answered from the row that another call *)
(* wrote makes the same request as that call.                              *)
(***************************************************************************)
C21_DistinctRequestsDistinctKeys ==
  /\ \A a, b \in AllCalls :
       (~IsNone(a.key) /\ ~IsNone(b.key) /\ ~SameRequest(a.req, b.req))
       => Pickle(a.key) # Pickle(b.key)
  /\ \A b \in Calls :
       Hit(b) => b.store0[Pickle(b.key)].key = cache_key(b.req)
  /\ \A a, b \in Calls :
       (Count(a.ev, "write") = 1 /\ Hit(b) /\ Pickle(b.key) = Pickle(a.key))
       => SameRequest(a.req, b.req)

\* two calls that differ in target_unit alone: the second missed, invoked the
\* service and wrote a second row
C21_Witness ==
  /\ Len(hist) = 2
  /\ hist[1].req = Request("calculate", Al, Water, Ctx7, None)
  /\ hist[2].req = Request("calculate", Al, Water, Ctx7, Str("mg/L"))
  /\ hist[1].ev = <<"lookup", "remote", "write", "return">>
  /\ hist[2].ev = <<"lookup", "remote", "write", "return">>
  /\ Live(hist[2].store0, hist[1].key, hist[2].t0)
  /\ Cardinality(DOMAIN store) = 2

\* the direct uses of the cache and the metadata operations on record
Ops == {ops[i] : i \in DOMAIN ops}

(***************************************************************************)
(* C22.  An entry written by a successful calculate_guidelines has a TTL   *)
(* of 24 hours (86400 s) from the time of the write, and set_cached uses   *)
(* the ttl of the caller whenever one is passed: the row expires at the    *)
(* time of the write plus the TTL, a get one second earlier returns the    *)
(* value and a get at that time returns nothing.                           *)
(***************************************************************************)
C22_TtlOfEntries ==
  /\ \A h \in Calls :
       (h.req.op = "calculate" /\ Count(h.ev, "write") = 1) =>
         /\ h.store1[Pickle(h.key)].expire = h.t1 + 86400
         /\ get_cached(h.store1, h.key, h.t1 + 86399) = h.resp.json
         /\ IsNone(get_cached(h.store1, h.key, h.t1 + 86400))
  /\ \A o \in Ops :
       o.op = "set" =>
         /\ o.after[Pickle(o.key)].expire = o.t + o.ttl
         /\ get_cached(o.after, o.key, o.t + o.ttl - 1) = o.value
         /\ IsNone(get_cached(o.after, o.key, o.t + o.ttl))

\* a calculation call wrote its entry and a caller set one with a ttl of an
\* hour; the second has expired and the first has not
C22_Witness ==
  \E h \in Calls, o \in Ops :
    /\ h.req.op = "calculate" /\ Count(h.ev, "write") = 1
    /\ o.op = "set" /\ o.ttl = ShortTtl
    /\ Pickle(h.key) \in DOMAIN store /\ Pickle(o.key) \in DOMAIN store
    /\ IsNone(get_cached(store, o.key, now))
    /\ ~IsNone(get_cached(store, h.key, now))

(***************************************************************************)
(* C23.  The default cache TTL is 7 days (604800 s) when the setting       *)
(* GUIDELINELY_CACHE_TTL is absent, and the entries the calculation calls  *)
(* write use this default: with the setting absent, every row written by   *)
(* a calculation call expires 604800 s after the write.  (No operation of  *)
(* the program reads the setting, so the environment of the model has      *)
(* none.)                                                                  *)
(***************************************************************************)
C23_DefaultTtlSevenDays ==
  \A h \in Calls :
    Count(h.ev, "write") = 1 =>
      h.store1[Pickle(h.key)].expire = h.t1 + 7 * 24 * 3600

(***************************************************************************)
(* C24.  An entry written by a successful calculation call survives a      *)
(* process exit and restart: when the process is restarted (on the same    *)
(* cache directory) before the TTL of the entry elapses, an identical      *)
(* call computes the same cache key, is a cache hit and performs no remote *)
(* invocation.                                                             *)
(***************************************************************************)
C24_EntrySurvivesRestart ==
  \A a, b \in Calls :
    ( /\ Len(hist) = 2 /\ a = hist[1] /\ b = hist[2]
      /\ a.boot < b.boot
      /\ a.dir = b.dir
      /\ SameRequest(a.req, b.req)
      /\ a.outcome = "returned" /\ Count(a.ev, "write") = 1
      /\ b.t0 < a.t1 + 86400 )
    => /\ Pickle(b.key) = Pickle(a.key)
       /\ Count(b.ev, "remote") = 0
       /\ b.outcome = "returned"
       /\ b.result = a.result

\* a call wrote its entry, time passed, the process was restarted, and the
\* same call in the new process was answered from the entry
C24_Witness ==
  /\ Len(hist) = 2
  /\ hist[1].boot = 0 /\ hist[2].boot > 0
  /\ hist[1].dir = hist[2].dir
  /\ hist[1].ev = <<"lookup", "remote", "write", "return">>
  /\ hist[2].ev = <<"lookup", "return">>
  /\ hist[2].req = hist[1].req
  /\ hist[2].t0 > hist[1].t1
  /\ hist[2].result = hist[1].result

(***************************************************************************)
(* C25.  Cache round trip: for every key, also one that holds nested lists *)
(* and mappings, and every value, a set of the key followed by a get of    *)
(* the same key before the TTL elapses, with no set or clear in between,   *)
(* returns exactly the stored value.                                       *)
(***************************************************************************)
C25_SetThenGet ==
  ( /\ Len(ops) = 2
    /\ ops[1].op = "set" /\ ops[2].op = "get"
    /\ ops[2].key = ops[1].key
    /\ ops[2].before = ops[1].after
    /\ ops[2].t < ops[1].t + ops[1].ttl )
  => ops[2].result = ops[1].value

\* the nested key was set to a mapping and read back later
C25_Witness ==
  /\ Len(ops) = 2
  /\ ops[1].op = "set" /\ ops[1].key = KeyNested /\ ops[1].value = ValueResponse
  /\ ops[2].op = "get" /\ ops[2].key = KeyNested
  /\ ops[2].before = ops[1].after
  /\ ops[2].t > ops[1].t
  /\ ops[2].result = ValueResponse

C27_ClearEmpties ==
  /\ \A i \in DOMAIN ops :
       ops[i].op = "clear" =>
         /\ \A k \in DOMAIN ops[i].before :
              IsNone(get_cached(ops[i].after, ops[i].before[k].key, ops[i].t))
         /\ \A req \in CoreCalculateInputs \cup CoreBatchInputs :
              IsNone(get_cached(ops[i].after, cache_key(req), ops[i].t))
  /\ \A b \in Calls :
       ( /\ LookedUp(b)
         /\ \E i \in DOMAIN ops : ops[i].op = "clear" /\ b.store0 = ops[i].after )
       => /\ Missed(b)
          /\ Count(b.ev, "remote") = 1

\* a call wrote its entry, the cache was cleared, and the same request, made
\* again within the TTL, went to the service
C27_Witness ==
  /\ Len(hist) = 2 /\ Len(ops) >= 1
  /\ Count(hist[1].ev, "write") = 1
  /\ ops[Len(ops)].op = "clear"
  /\ ops[Len(ops)].before = hist[1].store1
  /\ hist[2].store0 = ops[Len(ops)].after
  /\ SameRequest(hist[1].req, hist[2].req)
  /\ hist[2].t0 < hist[1].t1 + 86400
  /\ Count(hist[2].ev, "remote") = 1
  /\ hist[2].outcome = "returned"

(***************************************************************************)
(* The metadata operations.  Each one sends one GET and handles the answer *)
(* as the calculation calls do: a timeout becomes GuidelinelyTimeoutError, *)
(* a status other than 200 goes to _handle_error, and the decoded body is  *)
(* returned, as it is or as the pydantic objects built from it.  No cache  *)
(* is involved.                                                            *)
(***************************************************************************)
MetadataOps ==
  {"health_check", "readiness_check", "list_parameters", "search_parameters",
   "list_media", "list_sources", "get_stats"}

\* the query parameters search_parameters sends
SearchParams(q, media, source, document) ==
  Dict(<< <<Str("q"), q>> >>
       \o (IF Truthy(media) THEN << <<Str("media"), media>> >> ELSE <<>>)
       \o (IF Truthy(source) THEN << <<Str("source"), source>> >> ELSE <<>>)
       \o (IF Truthy(document) THEN << <<Str("document"), document>> >> ELSE <<>>))

\* SourceDocument accepts d
IsSourceDocument(d) ==
  /\ IsDict(d)
  /\ HasKey(d, "id") /\ IsInt(GetItem(d, "id"))
  /\ HasKey(d, "title") /\ IsStr(GetItem(d, "title"))
  /\ IsNone(DictGet(d, "url")) \/ IsStr(DictGet(d, "url"))
  /\ IsNone(DictGet(d, "year")) \/ IsInt(DictGet(d, "year"))

\* the SourceDocument built from d
SourceDocument(d) ==
  Dict(<< <<Str("id"), GetItem(d, "id")>>, <<Str("title"), GetItem(d, "title")>>,
          <<Str("url"), DictGet(d, "url")>>, <<Str("year"), DictGet(d, "year")>> >>)

\* SourceResponse(**source) accepts source
IsSourceResponse(source) ==
  /\ IsDict(source)
  /\ HasKey(source, "id") /\ IsInt(GetItem(source, "id"))
  /\ HasKey(source, "name") /\ IsStr(GetItem(source, "name"))
  /\ HasKey(source, "abbreviation") /\ IsStr(GetItem(source, "abbreviation"))
  /\ HasKey(source, "documents") /\ IsList(GetItem(source, "documents"))
  /\ \A i \in 1..Len(GetItem(source, "documents").list) :
        IsSourceDocument(GetItem(source, "documents").list[i])

\* the SourceResponse built from source
SourceResponse(source) ==
  Dict(<< <<Str("id"), GetItem(source, "id")>>,
          <<Str("name"), GetItem(source, "name")>>,
          <<Str("abbreviation"), GetItem(source, "abbreviation")>>,
          <<Str("documents"),
            List([i \in 1..Len(GetItem(source, "documents").list) |->
                   SourceDocument(GetItem(source, "documents").list[i])])>> >>)

StatsFields ==
  <<"total_parameters", "total_guidelines", "total_sources", "total_documents">>

\* StatsResponse(**data): the object built, or the exception raised
StatsResponse(data) ==
  IF ~IsDict(data) THEN [ok |-> FALSE, err |-> "TypeError", obj |-> None]
  ELSE IF \E i \in 1..Len(StatsFields) :
            ~HasKey(data, StatsFields[i]) \/ ~IsInt(GetItem(data, StatsFields[i]))
    THEN [ok |-> FALSE, err |-> "ValidationError", obj |-> None]
  ELSE [ok |-> TRUE, err |-> "",
        obj |-> Dict([i \in 1..Len(StatsFields) |->
                       <<Str(StatsFields[i]), GetItem(data, StatsFields[i])>>])]

\* what operation op returns for the decoded body data of a 200 response,
\* or the exception that building it raises
Returned(op, data) ==
  IF op = "get_stats" THEN StatsResponse(data)
  ELSE IF op = "list_sources"
    THEN IF IsDict(data) /\ data.dict = <<>>
           THEN [ok |-> TRUE, err |-> "", obj |-> List(<<>>)]
         ELSE IF ~IsList(data) THEN [ok |-> FALSE, err |-> "TypeError", obj |-> None]
         ELSE IF \E i \in 1..Len(data.list) : ~IsDict(data.list[i])
           THEN [ok |-> FALSE, err |-> "TypeError", obj |-> None]
         ELSE IF \E i \in 1..Len(data.list) : ~IsSourceResponse(data.list[i])
           THEN [ok |-> FALSE, err |-> "ValidationError", obj |-> None]
         ELSE [ok |-> TRUE, err |-> "",
               obj |-> List([i \in 1..Len(data.list) |-> SourceResponse(data.list[i])])]
  ELSE [ok |-> TRUE, err |-> "", obj |-> data]

\* MetadataStore that caches the body of a 200 response under the operation
MetadataStoreCaching(op, response, st) ==
  IF ~response.timeout /\ response.status = 200 /\ response.parses
    THEN set_cached(st, Dict(<< <<Str("endpoint"), Str(op)>> >>), response.json,
                    DefaultTtl, now)
    ELSE st

\* the cache store after a metadata call made on the store st: none of the
\* seven operations calls get_cached or set_cached
MetadataStore(op, response, st) == st

\* the record of one metadata call: what it sent, the response, and how it ended
MetadataOp(op, params, response, e, r) ==
  [op |-> op, key |-> None, value |-> params, ttl |-> 0,
   result |-> IF e = NoError /\ r.ok THEN r.obj ELSE None,
   t |-> now, before |-> store, after |-> MetadataStore(op, response, store),
   resp |-> response,
   outcome |-> IF e # NoError THEN e.err ELSE IF r.ok THEN "returned" ELSE r.err,
   status |-> e.status_code, message |-> e.message]

\* the body the service answers operation op with
MetadataBody(op) ==
  IF op = "health_check" THEN Dict(<< <<Str("status"), Str("healthy")>> >>)
  ELSE IF op = "readiness_check" THEN Dict(<< <<Str("status"), Str("ready")>> >>)
  ELSE IF op = "list_parameters" THEN List(<<Str("Aluminum"), Str("Copper")>>)
  ELSE IF op = "search_parameters" THEN List(<<Str("Copper")>>)
  ELSE IF op = "list_media" THEN Dict(<< <<Str("surface_water"), Str("Surface Water")>> >>)
  ELSE IF op = "list_sources"
    THEN List(<< Dict(<< <<Str("id"), Num(1)>>, <<Str("name"), Str("Alberta")>>,
                         <<Str("abbreviation"), Str("AEPA")>>,
                         <<Str("documents"),
                           List(<< Dict(<< <<Str("id"), Num(1)>>,
                                           <<Str("title"), Str("PAL")>> >>) >>)>>,
                         <<Str("extra"), Num(0)>> >>) >>)
  ELSE Dict(<< <<Str("total_parameters"), Num(3)>>, <<Str("total_guidelines"), Num(2)>>,
               <<Str("total_sources"), Num(1)>>, <<Str("total_documents"), Num(1)>> >>)

\* the statuses the service answers with, and whether a body comes with them
NotReady ==
  Dict(<< <<Str("status"), Str("not_ready")>>,
          <<Str("reason"), Str("Database unavailable")>> >>)

StatusResponses(body) ==
  { Timeout,
    Response(FALSE, 200, TRUE, body),
    Response(FALSE, 201, TRUE, body),
    Response(FALSE, 204, FALSE, None),
    Response(FALSE, 404, FALSE, None),
    Response(FALSE, 500, TRUE, Dict(<< <<Str("detail"), Str("Internal error")>> >>)),
    Response(FALSE, 503, TRUE, NotReady) }

\* the metadata calls the model makes: the operation and its query parameters
MetadataCalls ==
  {[op |-> op, params |-> None] : op \in MetadataOps \ {"search_parameters"}}
  \cup {[op |-> "search_parameters", params |-> SearchParams(a[1], a[2], a[3], a[4])] :
          a \in { <<Str(""), None, None, None>>,
                  <<Str("copper"), List(<<Str("surface_water")>>), List(<<>>), None>>,
                  <<Str("aluminum"), List(<<Str("groundwater")>>),
                    List(<<Str("AEPA")>>), List(<<Str("PAL")>>)>> }}

\* Metadata that hands back the body of a response whatever its status
MetadataIgnoringStatus(op, params, response) ==
  /\ nCalls < MaxCalls
  /\ nCalls' = nCalls + 1
  /\ ops' = Remember(ops, MetadataOp(op, params, response,
                                     IF response.timeout \/ ~response.parses
                                       THEN Raised(response) ELSE NoError,
                                     Returned(op, response.json)))
  /\ store' = MetadataStore(op, response, store)
  /\ UNCHANGED <<now, pc, cur, hist, twin, sets, boot, env, dir, disk>>

\* one call of a metadata operation, from the GET to the return or the raise
Metadata(op, params, response) ==
  /\ nCalls < MaxCalls
  /\ nCalls' = nCalls + 1
  /\ ops' = Remember(ops, MetadataOp(op, params, response, Raised(response),
                                     Returned(op, response.json)))
  /\ store' = MetadataStore(op, response, store)
  /\ UNCHANGED <<now, pc, cur, hist, twin, sets, boot, env, dir, disk>>

StatusBatchInputs == { Request("batch", List(<<Al, Cu>>), Water, CtxAB, None) }

StatusAnswers(p) ==
  IF pc[p] = "remote" THEN StatusResponses(Payload(cur[p].req, 1)) ELSE {}

\* One caller that uses all nine operations against a service that answers
\* with success and failure statuses; the store works.
NextStatus ==
  \/ \E c \in MetadataCalls : \E response \in StatusResponses(MetadataBody(c.op)) :
       Metadata(c.op, c.params, response)
  \/ \E req \in CoreCalculateInputs : calculate_guidelines(1, req, FALSE)
  \/ \E req \in StatusBatchInputs : calculate_batch(1, req, FALSE)
  \/ \E response \in StatusAnswers(1) : Respond(1, response)
  \/ Write(1, FALSE)

SpecStatus == Init /\ [][NextStatus]_vars

\* the response carries a failure status
FailureStatus(response) == ~response.timeout /\ response.status >= 400

\* the response carries a 2xx status
SuccessStatus(response) == ~response.timeout /\ response.status \in 200..299

\* the metadata calls among the recorded operations
MetadataDone == {ops[i] : i \in {j \in DOMAIN ops : ops[j].op \in MetadataOps}}

\* the calculation calls that received a response
Responded == {c \in Calls : Count(c.ev, "remote") = 1 /\ ~c.resp.timeout}

(***************************************************************************)
(* C28.  For each of the nine client operations, a response with a failure *)
(* status (4xx or 5xx) makes the operation raise GuidelinelyAPIError, and   *)
(* the status_code of the error is the status code of the response.        *)
(***************************************************************************)
C28_FailureStatusRaised ==
  /\ \A o \in MetadataDone :
       FailureStatus(o.resp) =>
         o.outcome = "GuidelinelyAPIError" /\ o.status = o.resp.status
  /\ \A c \in Responded :
       FailureStatus(c.resp) =>
         c.outcome = "GuidelinelyAPIError" /\ c.status = c.resp.status

\* readiness_check was answered 503 and a calculation call 404, and both
\* raised GuidelinelyAPIError with that status
C28_Witness ==
  /\ \E o \in MetadataDone :
       /\ o.op = "readiness_check" /\ o.resp.status = 503
       /\ o.outcome = "GuidelinelyAPIError" /\ o.status = 503
  /\ \E c \in Responded :
       /\ c.resp.status = 404
       /\ c.outcome = "GuidelinelyAPIError" /\ c.status = 404

(***************************************************************************)
(* C29.  A response is a fault exactly when its status is not 2xx: for     *)
(* every operation, a response with a 2xx status (200, 201, 204, ...) does  *)
(* not raise GuidelinelyAPIError, and when its body decodes the operation   *)
(* returns the payload; a response with any other status raises            *)
(* GuidelinelyAPIError.                                                     *)
(***************************************************************************)
C29_FaultIffNot2xx ==
  /\ \A c \in Responded :
       IF SuccessStatus(c.resp)
         THEN /\ c.outcome # "GuidelinelyAPIError"
              /\ c.resp.parses => ReturnedOwnPayload(c)
         ELSE c.outcome = "GuidelinelyAPIError"
  /\ \A o \in {x \in MetadataDone : ~x.resp.timeout} :
       IF SuccessStatus(o.resp)
         THEN /\ o.outcome # "GuidelinelyAPIError"
              /\ o.resp.parses =>
                   o.outcome = "returned" /\ o.result = Returned(o.op, o.resp.json).obj
         ELSE o.outcome = "GuidelinelyAPIError"

(***************************************************************************)
(* C30.  The cache directory of a process is the path given by the setting *)
(* GUIDELINELY_CACHE_DIR when the setting is set, and the directory        *)
(* .guidelinely_cache of the user's home when it is not set; the cache the *)
(* process works on is the one stored in that directory.                   *)
(***************************************************************************)
C30_CacheDirectory ==
  /\ IF IsNone(env)
       THEN dir = HomeDir \o "/.guidelinely_cache"
       ELSE dir = Path(env.str)
  /\ \A c \in Calls :
       c.boot = boot => c.dir = dir

\* a call wrote its entry under the home directory; the process was restarted
\* with the setting, and the same request found nothing in the directory of
\* the setting and wrote its entry there
C30_Witness ==
  /\ Len(hist) = 2
  /\ hist[1].dir = HomeDir \o "/.guidelinely_cache"
  /\ Count(hist[1].ev, "write") = 1
  /\ env = Str("/tmp/custom_guidelinely_cache")
  /\ dir = "/tmp/custom_guidelinely_cache"
  /\ hist[2].boot = boot /\ hist[2].dir = dir
  /\ SameRequest(hist[1].req, hist[2].req)
  /\ hist[2].t0 < hist[1].t1 + 86400
  /\ Missed(hist[2])
  /\ Count(hist[2].ev, "write") = 1
  /\ Live(disk[hist[1].dir], hist[1].key, now)

(***************************************************************************)
(* Termination.  The calls are synchronous: once the request is posted,    *)
(* httpx either hands back a response or raises TimeoutException after     *)
(* DEFAULT_TIMEOUT, and the statements after it run to the return or the    *)
(* raise.  So a posted request is eventually answered and a decoded answer *)
(* is eventually written and returned.                                     *)
(***************************************************************************)
\* what the service may do with the request caller p has posted: time out,
\* fail, or answer 200 with a payload or with an empty object
LiveAnswers(p) ==
  IF pc[p] = "remote"
    THEN { Timeout,
           Response(FALSE, 500, TRUE, Dict(<< <<Str("detail"), Str("Internal error")>> >>)),
           Response(FALSE, 200, TRUE, Payload(cur[p].req, 1)),
           Response(FALSE, 200, TRUE, Dict(<<>>)) }
    ELSE {}

\* One caller with valid and oversized requests against a service that may
\* fail or time out; the store works.
NextLive ==
  \/ \E req \in CoreCalculateInputs : calculate_guidelines(1, req, FALSE)
  \/ \E req \in CoreBatchInputs : calculate_batch(1, req, FALSE)
  \/ \E response \in LiveAnswers(1) : Respond(1, response)
  \/ Write(1, FALSE)

SpecLive ==
  /\ Init
  /\ [][NextLive]_vars
  /\ WF_vars(\E response \in LiveAnswers(1) : Respond(1, response))
  /\ WF_vars(Write(1, FALSE))

\* the steps of a call after validation, in the order of the code
Steps == <<"lookup", "remote", "write", "return">>

\* the position of step e in Steps
StepRank(e) == CHOOSE i \in DOMAIN Steps : Steps[i] = e

\* the steps in ev are in the order of Steps and none is repeated
InOrder(ev) ==
  \A i, j \in DOMAIN ev : i < j => StepRank(ev[i]) < StepRank(ev[j])

(***************************************************************************)
(* C31.  Every calculation call terminates: with a store that answers and  *)
(* a service that responds or times out, a call in progress eventually     *)
(* ends, by returning or by raising; and the steps of every call (after    *)
(* validation: cache lookup, remote call, cache write, assembling the      *)
(* result) happen in that order, each at most once.                        *)
(***************************************************************************)
C31_CallsTerminate ==
  /\ [](\A c \in AllCalls : InOrder(c.ev))
  /\ [](\A c \in Calls : c.outcome # "returned" => Count(c.ev, "return") = 0)
  /\ \A p \in Procs : (pc[p] # "idle") ~> (pc[p] = "idle")

\* one call went through all the steps and returned, another timed out
C31_Witness ==
  /\ Len(hist) = 2
  /\ pc[1] = "idle"
  /\ \E i, j \in 1..2 :
       /\ hist[i].ev = Steps /\ hist[i].outcome = "returned"
       /\ hist[j].ev = <<"lookup", "remote">>
       /\ hist[j].outcome = "GuidelinelyTimeoutError"

\* the failed responses of the service: a status and an error body
ErrorResponses ==
  { Response(FALSE, 500, TRUE, Dict(<< <<Str("detail"), Str("Database error")>> >>)),
    Response(FALSE, 503, TRUE, NotReady),
    Response(FALSE, 404, TRUE, Dict(<< <<Str("message"), Str("Not found")>> >>)),
    Response(FALSE, 400, TRUE, Dict(<< <<Str("detail"), Str("Bad request")>>,
                                       <<Str("message"), Str("Try again")>> >>)),
    Response(FALSE, 502, TRUE, Dict(<< <<Str("detail"), Str("")>>,
                                       <<Str("message"), Str("Bad gateway")>> >>)),
    Response(FALSE, 504, TRUE, Dict(<< <<Str("detail"), None>>,
                                       <<Str("message"), Str("")>> >>)),
    Response(FALSE, 422, TRUE, Dict(<< <<Str("detail"),
                                         List(<<Str("media: field required")>>)>> >>)),
    Response(FALSE, 500, TRUE, List(<<Str("error")>>)),
    Response(FALSE, 502, FALSE, None) }

ErrorAnswers(p) == IF pc[p] = "remote" THEN ErrorResponses ELSE {}

\* One caller that uses all nine operations against a service that fails
\* every request.
NextErrors ==
  \/ \E c \in MetadataCalls : \E response \in ErrorResponses :
       Metadata(c.op, c.params, response)
  \/ \E req \in CoreCalculateInputs : calculate_guidelines(1, req, FALSE)
  \/ \E req \in StatusBatchInputs : calculate_batch(1, req, FALSE)
  \/ \E response \in ErrorAnswers(1) : Respond(1, response)

SpecErrors == Init /\ [][NextErrors]_vars

\* v is a value other than null and the empty string, list or object
NonEmpty(v) == v \notin {None, Str(""), List(<<>>), Dict(<<>>)}

\* the field among names that comes first and is present and non-empty in
\* body, or the fixed text when there is none or body is not an object
FirstNonEmpty(response, names) ==
  LET ok == { i \in DOMAIN names :
                /\ response.parses /\ IsDict(response.json)
                /\ \E j \in DOMAIN response.json.dict :
                     /\ response.json.dict[j][1] = Str(names[i])
                     /\ NonEmpty(response.json.dict[j][2]) }
  IN IF ok = {} THEN Str("API request failed")
     ELSE LET i == CHOOSE x \in ok : \A y \in ok : x <= y
              j == CHOOSE x \in DOMAIN response.json.dict :
                     response.json.dict[x][1] = Str(names[i])
          IN response.json.dict[j][2]

(***************************************************************************)
(* C32.  The message of the GuidelinelyAPIError raised for a failed        *)
(* response is the field detail of the error body when it is present and   *)
(* non-empty, else the field message when it is present and non-empty,     *)
(* else the text "API request failed", which is also the message when the  *)
(* body is not a JSON object; and the error carries the status code of     *)
(* the response.                                                           *)
(***************************************************************************)
C32_ErrorMessage ==
  /\ \A o \in MetadataDone :
       FailureStatus(o.resp) =>
         /\ o.outcome = "GuidelinelyAPIError"
         /\ o.message = FirstNonEmpty(o.resp, <<"detail", "message">>)
         /\ o.status = o.resp.status
  /\ \A c \in Responded :
       FailureStatus(c.resp) =>
         /\ c.outcome = "GuidelinelyAPIError"
         /\ c.message = FirstNonEmpty(c.resp, <<"detail", "message">>)
         /\ c.status = c.resp.status

\* list_media failed with the message of the field detail, readiness_check
\* with the fixed text, and a calculation call with the field message
\* because its detail was empty
C32_Witness ==
  /\ \E o \in MetadataDone :
       /\ o.op = "readiness_check" /\ o.resp.json = NotReady
       /\ o.message = Str("API request failed") /\ o.status = 503
  /\ \E c \in Responded :
       /\ c.resp.parses /\ IsDict(c.resp.json)
       /\ DictGet(c.resp.json, "detail") = Str("")
       /\ c.message = Str("Bad gateway") /\ c.status = 502

(***************************************************************************)
(* BatchCalculateRequest, the pydantic model of the batch request body.    *)
(* The fields are validated first; validate_parameter_count runs after     *)
(* them, and pydantic reports its ValueError as a ValidationError.         *)
(***************************************************************************)
\* ParameterWithUnit accepts e
IsParameterWithUnit(e) ==
  /\ IsDict(e)
  /\ HasKey(e, "name") /\ IsStr(GetItem(e, "name"))
  /\ IsNone(DictGet(e, "target_unit")) \/ IsStr(DictGet(e, "target_unit"))

\* the ParameterWithUnit built from e
ParameterWithUnit(e) ==
  Dict(<< <<Str("name"), GetItem(e, "name")>>,
          <<Str("target_unit"), DictGet(e, "target_unit")>> >>)

\* context: Optional[dict[str, str]] accepts v
IsOptionalStrDict(v) ==
  \/ IsNone(v)
  \/ /\ IsDict(v)
     /\ \A i \in DOMAIN v.dict : IsStr(v.dict[i][1]) /\ IsStr(v.dict[i][2])

\* validate_parameter_count with the limit off by one
validate_parameter_count_off_by_one(parameters) == PyLen(parameters) < MaxBatch

\* validate_parameter_count lets the model through
validate_parameter_count(parameters) == ~(PyLen(parameters) > MaxBatch)

\* BatchCalculateRequest(parameters=..., media=..., context=...): the object
\* built, or the exception raised
BatchCalculateRequest(parameters, media, context) ==
  IF \/ ~IsList(parameters)
     \/ \E i \in DOMAIN parameters.list :
          ~IsStr(parameters.list[i]) /\ ~IsParameterWithUnit(parameters.list[i])
     \/ ~IsStr(media)
     \/ ~IsOptionalStrDict(context)
     \/ ~validate_parameter_count(parameters)
    THEN [ok |-> FALSE, err |-> "ValidationError", obj |-> None]
    ELSE [ok |-> TRUE, err |-> "",
          obj |-> Dict(<< <<Str("parameters"),
                            List([i \in DOMAIN parameters.list |->
                                   IF IsStr(parameters.list[i]) THEN parameters.list[i]
                                   ELSE ParameterWithUnit(parameters.list[i])])>>,
                          <<Str("media"), media>>,
                          <<Str("context"), context>> >>)]

\* the parameter lists around the limit: names, and objects with a name
\* and a target_unit
CuMgL == Dict(<< <<Str("name"), Cu>>, <<Str("target_unit"), Str("mg/L")>> >>)

LimitInputs ==
  { Request("batch", parameters, Water, CtxAB, None) :
      parameters \in { List(<<>>), List(<<Al>>), List(<<Al, CuMgL>>),
                       Repeat(MaxBatch - 1, Al), Repeat(MaxBatch, Al),
                       Repeat(MaxBatch, CuMgL), Repeat(MaxBatch + 1, Al),
                       Repeat(MaxBatch + 1, CuMgL), Repeat(MaxBatch + 2, Al) } }

\* a caller builds a BatchCalculateRequest
NewBatchCalculateRequest(req) ==
  /\ nCalls < MaxCalls
  /\ nCalls' = nCalls + 1
  /\ LET r == BatchCalculateRequest(req.parameter, req.media, req.context)
     IN ops' = Remember(ops,
                 [CacheOp("BatchCalculateRequest", req.parameter, None, 0, r.obj, store)
                    EXCEPT !.outcome = IF r.ok THEN "returned" ELSE r.err])
  /\ UNCHANGED <<store, now, pc, cur, hist, twin, sets, boot, env, dir, disk>>

\* One caller that builds batch request bodies and makes batch calls with
\* parameter lists around the limit; the store and the service work.
NextLimit ==
  \/ \E req \in LimitInputs : NewBatchCalculateRequest(req)
  \/ \E req \in LimitInputs : calculate_batch(1, req, FALSE)
  \/ \E response \in GoodAnswers(1) : Respond(1, response)
  \/ Write(1, FALSE)

SpecLimit == Init /\ [][NextLimit]_vars

\* the BatchCalculateRequest instantiations on record
Instantiated == {o \in Ops : o.op = "BatchCalculateRequest"}

\* the batch calls on record
BatchCalls == {c \in Calls : c.req.op = "batch"}

(***************************************************************************)
(* C33.  For the parameter lists calculate_batch documents (names, and     *)
(* objects with a name and a target_unit), instantiating                   *)
(* BatchCalculateRequest fails with a validation error exactly when the    *)
(* list has more than 50 elements, calculate_batch rejects a list with     *)
(* ValueError exactly then too, so the two reject the same lists, and both *)
(* accept every list of 0 to 50 elements.                                  *)
(***************************************************************************)
C33_SameLimit ==
  /\ \A o \in Instantiated :
       (o.outcome = "ValidationError") <=> (PyLen(o.key) > 50)
  /\ \A o \in Instantiated :
       PyLen(o.key) \in 0..50 => o.outcome = "returned" /\ ~IsNone(o.result)
  /\ \A c \in BatchCalls :
       (c.outcome = "ValueError" /\ c.ev = <<>>) <=> (PyLen(c.req.parameter) > 50)
  /\ \A o \in Instantiated : \A c \in BatchCalls :
       o.key = c.req.parameter =>
         ((o.outcome = "ValidationError") <=> (c.outcome = "ValueError"))

\* a list of 51 objects was rejected by BatchCalculateRequest and by
\* calculate_batch
C33_Witness ==
  \E o \in Instantiated : \E c \in BatchCalls :
    /\ o.key = Repeat(MaxBatch + 1, CuMgL) /\ c.req.parameter = o.key
    /\ o.outcome = "ValidationError"
    /\ c.outcome = "ValueError" /\ c.ev = <<>>

\* requests with and without a context and a unit conversion
ProvenanceCalculateInputs ==
  { Request("calculate", Al, Water, Ctx7, None),
    Request("calculate", Al, Water, Ctx7, Str("mg/L")),
    Request("calculate", Al, Water, Dict(<<>>), Str("")) }

ProvenanceBatchInputs == { Request("batch", List(<<Al, CuMgL>>), Water, Ctx7, None) }

\* what the service may answer to the request caller p has posted: a
\* failure, 201, or 200 with a payload or with an empty object
ProvenanceAnswers(p) ==
  IF pc[p] = "remote"
    THEN { Response(FALSE, 500, TRUE, Dict(<< <<Str("detail"), Str("Internal error")>> >>)),
           Response(FALSE, 201, TRUE, Payload(cur[p].req, 1)),
           Response(FALSE, 200, TRUE, Payload(cur[p].req, 1)),
           Response(FALSE, 200, TRUE, Dict(<<>>)) }
    ELSE {}

\* One caller whose requests are answered in every way, while time passes;
\* the store works.
NextProvenance ==
  \/ \E req \in ProvenanceCalculateInputs : calculate_guidelines(1, req, FALSE)
  \/ \E req \in ProvenanceBatchInputs : calculate_batch(1, req, FALSE)
  \/ \E response \in ProvenanceAnswers(1) : Respond(1, response)
  \/ Write(1, FALSE)
  \/ Tick

SpecProvenance == Init /\ [][NextProvenance]_vars

\* the endpoint a call posts to, as the cache keys name it
EndpointOf(req) == IF req.op = "calculate" THEN Str("calculate") ELSE Str("calculate/batch")

\* the field name of the key is the one of the posted body; a field the
\* body leaves out is null or empty in the key
FieldMatches(key, body, name) ==
  IF HasKey(body, name)
    THEN DictGet(key, name) = GetItem(body, name)
    ELSE ~Truthy(DictGet(key, name))

\* the key names the endpoint and the fields of the request that call c posted
KeyOfRequest(key, c) ==
  /\ IsDict(key) /\ IsDict(c.sent)
  /\ DictGet(key, "endpoint") = EndpointOf(c.req)
  /\ \A name \in {"parameter", "parameters", "media", "context", "target_unit"} :
       FieldMatches(key, c.sent, name)

(***************************************************************************)
(* C34.  Cache provenance.  The store starts empty, and a step that adds   *)
(* or changes an entry is the write of a calculation call that has         *)
(* received a response with status 200: the entry holds the payload of     *)
(* that response, and its key names the endpoint, parameter(s), media,     *)
(* context and target_unit of the request the call posted.  So in every    *)
(* reachable state each entry holds a payload the service returned with a  *)
(* success status for the request of its key.                              *)
(***************************************************************************)
C34_Provenance ==
  /\ store = EmptyStore
  /\ [][ \A k \in DOMAIN store' :
           (k \notin DOMAIN store \/ store'[k] # store[k]) =>
             \E p \in Procs :
               /\ pc[p] = "write"
               /\ Count(cur[p].ev, "remote") = 1
               /\ ~cur[p].resp.timeout /\ cur[p].resp.status = 200 /\ cur[p].resp.parses
               /\ Loads(store'[k].blob) = cur[p].resp.json
               /\ k = Pickle(store'[k].key)
               /\ KeyOfRequest(store'[k].key, cur[p]) ]_vars

\* the store holds an entry for the request with a unit conversion and one
\* for the request without, each with the payload its call received
C34_Witness ==
  /\ Len(hist) = 2
  /\ Cardinality(DOMAIN store) = 2
  /\ hist[1].req.target_unit # hist[2].req.target_unit
  /\ \A i \in 1..2 :
       /\ Count(hist[i].ev, "write") = 1
       /\ Pickle(hist[i].key) \in DOMAIN store
       /\ Loads(store[Pickle(hist[i].key)].blob) = hist[i].resp.json
       /\ hist[i].resp.status = 200

(***************************************************************************)
(* C35.  A failed call is never replayed from the cache: a calculation     *)
(* call that raises an error (a remote fault, a timeout, or a payload that *)
(* cannot be mapped to a CalculationResponse) leaves the cache store as it *)
(* found it, and the next call with the same request invokes the remote    *)
(* service again.                                                          *)
(***************************************************************************)
C35_FailureNotCached ==
  /\ \A c \in Calls :
       c.outcome # "returned" => c.store1 = c.store0
  /\ \A a, b \in Calls :
       ( /\ Succeeds(a, b)
         /\ a.outcome # "returned" /\ Count(a.ev, "remote") = 1
         /\ SameRequest(a.req, b.req)
         /\ LookedUp(b) )
       => Count(b.ev, "remote") = 1

(***************************************************************************)
(* C36.  Whenever the store holds an unexpired entry for the cache key of  *)
(* a request at lookup time, the calculation call is a cache hit and       *)
(* performs no remote invocation, whatever the stored payload is, an empty *)
(* or otherwise falsy payload included.                                    *)
(***************************************************************************)
C36_LiveEntryIsHit ==
  \A c \in Calls :
    (LookedUp(c) /\ Live(c.store0, c.key, c.t0)) => Count(c.ev, "remote") = 0

\* requests that differ in the context or the unit conversion alone, some
\* of them in the way of saying that there is none
SoundCalculateInputs ==
  { Request("calculate", Al, Water, Ctx7, None),
    Request("calculate", Al, Water, Ctx7, Str("mg/L")),
    Request("calculate", Al, Water, Ctx7, Str("")),
    Request("calculate", Al, Water, None, None),
    Request("calculate", Al, Water, Dict(<<>>), None) }

SoundBatchInputs ==
  { Request("batch", List(<<Al, CuMgL>>), Water, Ctx7, None),
    Request("batch", List(<<Al, CuMgL>>), Water, Ctx8, None),
    Request("batch", List(<<Al, CuMgL>>), Water, None, None),
    Request("batch", List(<<Al, CuMgL>>), Water, Dict(<<>>), None) }

\* One caller whose requests differ in the context or the unit; the store
\* and the service work.
NextSound ==
  \/ \E req \in SoundCalculateInputs : calculate_guidelines(1, req, FALSE)
  \/ \E req \in SoundBatchInputs : calculate_batch(1, req, FALSE)
  \/ \E response \in GoodAnswers(1) : Respond(1, response)
  \/ Write(1, FALSE)
  \/ Tick

SpecSound == Init /\ [][NextSound]_vars

\* the calls, ended or in progress, that built a cache key
Keyed == {c \in AllCalls : ~IsNone(c.key)}

(***************************************************************************)
(* C37.  Cache key soundness: two calculation calls with the same cache    *)
(* key post the same body (parameter or parameters, media, context,        *)
(* target_unit) to the same endpoint, so a call that is answered from the  *)
(* cache gets the payload the service gave to a request identical to its   *)
(* own.                                                                    *)
(***************************************************************************)
C37_KeySound ==
  /\ \A a, b \in Keyed :
       Pickle(a.key) = Pickle(b.key) =>
         a.req.op = b.req.op /\ a.sent = b.sent
  /\ \A a, b \in Calls :
       (Succeeds(a, b) /\ Count(a.ev, "write") = 1 /\ Hit(b) /\ Pickle(a.key) = Pickle(b.key))
       => /\ a.sent = b.sent /\ a.req.op = b.req.op
          /\ b.outcome = "returned" /\ b.result = a.result

\* a batch call with a context wrote its entry and the same call was
\* answered from it, with the body it would have posted equal to the first
C37_Witness ==
  /\ Len(hist) = 2
  /\ hist[1].req.op = "batch" /\ Truthy(hist[1].req.context)
  /\ Count(hist[1].ev, "write") = 1
  /\ hist[2].store0 = hist[1].store1
  /\ Pickle(hist[2].key) = Pickle(hist[1].key)
  /\ Hit(hist[2]) /\ Count(hist[2].ev, "remote") = 0
  /\ hist[2].sent = hist[1].sent
  /\ HasKey(hist[2].sent, "context")

(***************************************************************************)
(* C38.  Two calculation calls that post an identical body to the same     *)
(* endpoint use the same cache key; in particular a call with context None *)
(* and a call with an empty context, or with target_unit None and an empty *)
(* target_unit, share one cache entry.                                     *)
(***************************************************************************)
C38_SameBodySameKey ==
  \A a, b \in Keyed :
    (a.req.op = b.req.op /\ a.sent = b.sent) => Pickle(a.key) = Pickle(b.key)

(***************************************************************************)
(* C39.  A cache hit leaves the cache store unchanged: a call answered     *)
(* from the cache, and a direct get_cached, neither rewrite the value of   *)
(* the entry nor extend its expiration, so the entry still expires at the  *)
(* time of its last set plus the ttl, however often it was read.           *)
(***************************************************************************)
C39_HitLeavesStore ==
  /\ \A c \in Calls :
       (Hit(c) /\ Count(c.ev, "remote") = 0) =>
         /\ c.store1 = c.store0
         /\ IsNone(get_cached(c.store1, c.key, c.store0[Pickle(c.key)].expire))
  /\ \A o \in Ops : o.op = "get" => o.after = o.before
  /\ \A a, b \in Calls :
       ( /\ Succeeds(a, b) /\ Count(a.ev, "write") = 1
         /\ Hit(b) /\ Count(b.ev, "remote") = 0
         /\ Pickle(b.key) = Pickle(a.key) )
       => /\ b.store1[Pickle(a.key)].expire = a.t1 + 86400
          /\ b.store1[Pickle(a.key)].blob = Pickle(a.resp.json)

\* a call wrote its entry and, some time later, the same call was answered
\* from it; the entry still expires 86400 s after the write
C39_Witness ==
  /\ Len(hist) = 2
  /\ Count(hist[1].ev, "write") = 1
  /\ hist[2].store0 = hist[1].store1
  /\ hist[2].t0 > hist[1].t1
  /\ Hit(hist[2]) /\ Count(hist[2].ev, "remote") = 0
  /\ hist[2].outcome = "returned"
  /\ store = hist[1].store1
  /\ store[Pickle(hist[1].key)].expire = hist[1].t1 + 86400

(***************************************************************************)
(* C40.  The metadata operations never read or write the cache store:      *)
(* every call of one invokes the remote service, its outcome is that of    *)
(* the response alone, and the store after the call is the store before    *)
(* it, whether the call succeeds or fails.                                 *)
(***************************************************************************)
C40_MetadataLeavesCache ==
  /\ [](\A o \in MetadataDone :
          /\ o.after = o.before
          /\ o.resp # NoResponse
          /\ o.outcome = "returned" <=>
               (~o.resp.timeout /\ o.resp.status = 200 /\ o.resp.parses
                /\ Returned(o.op, o.resp.json).ok)
          /\ o.outcome = "returned" => o.result = Returned(o.op, o.resp.json).obj)
  /\ [][ (ops' # ops /\ ops'[Len(ops')].op \in MetadataOps) =>
            /\ store' = store
            /\ ops'[Len(ops')].before = store /\ ops'[Len(ops')].after = store' ]_vars

\* with an entry in the cache, list_sources was called and returned, and the
\* store is as it was
C40_Witness ==
  /\ ops # <<>>
  /\ ops[Len(ops)].op = "list_sources"
  /\ ops[Len(ops)].outcome = "returned"
  /\ ops[Len(ops)].before # EmptyStore
  /\ store = ops[Len(ops)].before
====
